---- MODULE Spec2Model ----
(***************************************************************************)
(* A model of the Janus cross-platform test harness:                       *)
(*   - UnifiedTestSuite.run_stress_tests        (tests/run_tests.py)       *)
(*   - ServerManager and run_cross_platform_test                           *)
(*       (tests/library_based_tests/orchestrator/cross_platform_tests.py)  *)
(*   - the datagram request clients send_message / _test_command /         *)
(*       send_request (performance_benchmark.py, manifest_validator.py,    *)
(*       comprehensive_benchmark.py)                                       *)
(*   - UnifiedTestSuite.run_cross_platform_tests and the exit status of    *)
(*       main (tests/run_tests.py)                                         *)
(*   - LibraryTestOrchestrator.run_cross_platform_matrix                   *)
(*       (tests/library_based_tests/orchestrator/test_orchestrator.py)     *)
(*   - the verdict and the expectation predicate of the stress run, as     *)
(*       functions of their inputs                                         *)
(*   - UnifiedTestSuite's listeners, interrupt handler and cleanup         *)
(*       (tests/run_tests.py)                                              *)
(*   - the worker pools of throughput_benchmark and concurrent_benchmark   *)
(*       (tests/python/performance_benchmark.py)                           *)
(*   - measure_latency (quick_benchmark.py)                                *)
(*   - test_critical_combinations and its alarm (cross_platform_tests.py)  *)
(*   - TestOrchestrator.run_cross_platform_tests and start_server          *)
(*       (tests/python/test_orchestrator.py)                               *)
(*   - the working directory in the helpers of ComprehensiveTestSuite      *)
(*       (tests/python/comprehensive_test_suite.py)                        *)
(*   - UnifiedTestSuite.run_all_tests: build tests, unit tests, matrix and *)
(*       stress run (tests/run_tests.py)                                   *)
(* Each part has its own specification (SpecStress, SpecStressLive,        *)
(* SpecOrder, SpecServer, SpecCritical, SpecRequest, SpecLatency,          *)
(* SpecMatrix, SpecLib, SpecSuite, SpecPool, SpecCombos, SpecCwd,          *)
(* SpecPipe, SpecVerdict, SpecExit, SpecEvaluate); Spec runs one of them,  *)
(* chosen in the initial state.                                            *)
(***************************************************************************)
EXTENDS Integers, Sequences, FiniteSets, TLC

VARIABLES
    scenario,             \* which part of the harness this behaviour runs
    \* ---- UnifiedTestSuite.run_stress_tests ----
    build_successful,     \* ImplementationInfo.build_successful, per implementation
    st_pc,                \* position in run_stress_tests
    server_idx,           \* position of the outer for over available_impls
    client_idx,           \* position of the inner for over available_impls
    server_process,       \* what _start_listener returned and what became of it
    listener,             \* the spawned listener: starting, listening, failed
    now,                  \* time.time(), in ticks
    end_time,
    pattern_index,
    total_requests,
    successful_requests,
    failed_requests,
    pattern_stats,
    client_stats,
    error_types,
    pattern,              \* the pattern of the dispatch in progress
    response,             \* what the sender returned for it
    results,              \* the TestResult list of the run
    \* ---- ServerManager and run_cross_platform_test ----
    implementation,       \* ServerManager.implementation
    sm_pc,                \* position in run_cross_platform_test / ServerManager
    sm_process,           \* ServerManager.process: "None" or "Popen"
    ready,                \* ServerManager.ready
    error_message,        \* ServerManager.error_message
    start_time,           \* _wait_for_ready's start_time
    started,              \* what server.start returned: "pending", "True", "False"
    in_pair,              \* run_cross_platform_test has not returned yet
    stops,                \* the calls of ServerManager.stop that have returned
    proc,                 \* the spawned listener: "notspawned", "alive", "exited"
    pipe,                 \* the lines on its stdout not read yet
    printed,              \* how many lines it has written
    socket_file,          \* a file exists at socket_path
    bound,                \* the listener has bound its socket
    killed,               \* the listener was force-killed
    \* ---- the datagram request clients ----
    req_kind,             \* which client function the workers run
    target_up,            \* a listener socket exists at socket_path
    r_reply,              \* per worker: the kind of reply datagram received
    r_pc,                 \* per worker: position in the request
    r_path,               \* per worker: reply_path
    r_seq,                \* per worker: how many requests it has begun
    r_bound,              \* per worker: its socket is bound at reply_path
    r_result,             \* per worker: how its last request ended
    r_got,                \* per worker: the reply recvfrom returned
    reply_files,          \* the reply socket files on disk, <<path, owner>>
    srv_queue,            \* the requests the listener has not answered yet
    inbox,                \* per worker: the datagrams queued on its socket
    \* ---- one call of a function of the harness ----
    fn_in,                \* the arguments of the call
    fn_out,               \* << >> before the call, <<value>> after it
    \* ---- UnifiedTestSuite.run_cross_platform_tests ----
    mx_pc,                \* position in the matrix run
    listener_idx,         \* position of the outer for over available_impls
    sender_idx,           \* position of the inner for over available_impls
    mx_results,           \* the TestResult list of the matrix run
    \* ---- LibraryTestOrchestrator.run_cross_platform_matrix ----
    lm_pc,                \* position in the matrix run
    critical_results,     \* what test_critical_combinations has collected
    lm_client,            \* position of the outer for over implementations
    lm_server,            \* position of the inner for over implementations
    lm_results,           \* the TestOutcome list of the matrix run
    \* ---- UnifiedTestSuite: listeners, the interrupt handler and cleanup ----
    su_pc,                \* position of the main thread of the suite
    running_processes,    \* self.running_processes, a list of process handles
    children,            \* every process Popen has created, and its state
    pending,              \* the process Popen returned that is not appended yet
    held,                 \* the listener_process of the test under way, 0 for none
    socket_files,         \* the implementations whose socket file exists
    cleanups,             \* how many calls of cleanup have returned
    \* ---- the worker pools of the benchmarks ----
    pool_kind,            \* throughput_benchmark or concurrent_benchmark
    pool_pc,              \* position of the thread that runs the pool
    deadline,             \* time.perf_counter() has reached end_time
    w_pc,                 \* per worker: position in client_worker
    w_requests,           \* per worker: its local requests
    w_failures,           \* per worker: its local failures
    w_begun,              \* per worker: the send_message calls begun
    w_done,               \* per worker: the send_message calls that returned
    collected,            \* the futures whose result was added to the totals
    pool_requests,        \* total_requests of the pool's thread
    pool_failures,        \* total_failures of the pool's thread
    \* ---- TestOrchestrator.run_cross_platform_tests ----
    xp_pc,                \* position in run_cross_platform_tests
    combo,                \* index of the combination of the for loop
    server_procs,         \* per combination: the state of the server spawned
    xp_socket,            \* per server: the process whose socket file exists
    server_proc,          \* what start_server returned: 0 is None
    xp_polls,             \* iterations of start_server's wait loop so far
    served,               \* the combinations whose server started
    raised,               \* a client test raised
    \* ---- the working directory, ComprehensiveTestSuite ----
    cwd,                  \* the working directory of the process
    cw_fn,                \* the helper that is called
    cw_pc,                \* per thread: position in the helper
    original_cwd,         \* per thread: the local original_cwd
    \* ---- UnifiedTestSuite.run_all_tests ----
    categories,           \* the categories given to run_all_tests
    pl_pc,                \* position in run_all_tests
    pl_idx,               \* index of the implementation of the for loop
    build_status,         \* per implementation: status of its build result
    unit_status,          \* per implementation: status of its unit result
    unit_ran              \* the implementations whose unit tests were run

stressVars == <<build_successful, st_pc, server_idx, client_idx, server_process,
                listener, now, end_time, pattern_index, total_requests, successful_requests,
                failed_requests, pattern_stats, client_stats, error_types,
                pattern, response, results>>

serverVars == <<implementation, sm_pc, sm_process, ready, error_message,
                start_time, started, in_pair, stops, proc, pipe, printed,
                socket_file, bound, killed>>

\* the clock is shared: every part reads time.time()
requestVars == <<req_kind, target_up, r_reply, r_pc, r_path, r_seq, r_bound, r_result, r_got,
                 reply_files, srv_queue, inbox>>

fnVars == <<fn_in, fn_out>>

matrixVars == <<mx_pc, listener_idx, sender_idx, mx_results>>

libVars == <<lm_pc, critical_results, lm_client, lm_server, lm_results>>

suiteVars == <<su_pc, running_processes, children, pending, held,
               socket_files, cleanups>>

poolVars == <<pool_kind, pool_pc, deadline, w_pc, w_requests, w_failures,
              w_begun, w_done, collected, pool_requests, pool_failures>>

comboVars == <<xp_pc, combo, server_procs, xp_socket, server_proc, xp_polls,
               served, raised>>

cwdVars == <<cwd, cw_fn, cw_pc, original_cwd>>

pipeVars == <<categories, pl_pc, pl_idx, build_status, unit_status, unit_ran>>

vars == <<scenario, stressVars, serverVars, requestVars, fnVars, matrixVars,
          libVars, suiteVars, poolVars, comboVars, cwdVars, pipeVars>>

----------------------------------------------------------------------------
(* Bounds of the model *)

\* the stress run checked for termination dispatches at most this many
\* requests per server
MaxLive == 3

\* start_server's wait loop runs at most this many iterations
MaxWait == 2

\* the stress run dispatches at most this many requests per server
MaxRequests == 5
\* self.stress_duration, in ticks
StressDuration == 2
\* the clock of the server model stops here, in ticks of 0.1 s
MaxTime == 110
\* a listener writes at most this many lines to its stdout
MaxLines == 2
\* ServerManager.stop is called at most this many times on one manager
MaxStops == 3
\* the microsecond clock of the request model stops here
MaxClock == 2
\* each worker sends at most this many requests
MaxReqs == 2
\* the verdict is computed for runs of up to this many requests
MaxTotal == 40
\* the exit status is computed for runs of up to this many outcomes
MaxOutcomes == 3
\* a run of the suite starts at most this many listeners
MaxProcs == 3
\* a long stress run sends at most this many requests to one server, two
\* more than the pattern catalog holds
MaxDispatch == 21
\* requests_per_client of a pool, and the most a throughput worker sends
RequestsPerClient == 2

----------------------------------------------------------------------------
(* Small helpers *)

RECURSIVE SumOver(_, _)
\* the sum of f[k].total over the keys of f in S
SumOver(f, S) ==
    IF S = {} THEN 0
    ELSE LET k == CHOOSE x \in S : TRUE
         IN  f[k].total + SumOver(f, S \ {k})

SumTotals(f) == SumOver(f, DOMAIN f)

NoStats == [k \in {} |-> 0]

----------------------------------------------------------------------------
(* The implementations of the configuration, in dict order *)

ImplOrder == <<"go", "rust">>

Impls == {ImplOrder[i] : i \in 1..Len(ImplOrder)}

\* available_impls without the filter on build_successful
available_impls_Unfiltered == ImplOrder

\* available_impls: the implementations whose build succeeded, in dict order
available_impls ==
    SelectSeq(ImplOrder, LAMBDA i : build_successful[i])

----------------------------------------------------------------------------
(* The pattern catalog of run_stress_tests.  message is "" for the empty   *)
(* message and "MSG" for any other text; timeout is the sender's timeout.  *)

Pat(t, c, m, e, to) ==
    [type |-> t, command |-> c, message |-> m, expect_reply |-> TRUE,
     expect_error |-> e, timeout |-> to]

test_patterns ==
    << Pat("request_reply", "ping", "MSG", FALSE, 10),
       Pat("request_reply", "echo", "MSG", FALSE, 10),
       Pat("request_reply", "get_info", "MSG", FALSE, 10),
       Pat("request_reply", "validate", "MSG", FALSE, 10),
       Pat("large_payload", "echo", "MSG", FALSE, 10),
       Pat("large_payload", "echo", "MSG", FALSE, 10),
       Pat("special_chars", "echo", "MSG", FALSE, 10),
       Pat("unicode", "echo", "MSG", FALSE, 10),
       Pat("json_payload", "validate", "MSG", FALSE, 10),
       Pat("complex_json", "validate", "MSG", FALSE, 10),
       Pat("invalid_command", "nonexistent_command", "MSG", TRUE, 10),
       Pat("malformed_json", "validate", "MSG", TRUE, 10),
       Pat("empty_message", "echo", "", FALSE, 10),
       Pat("rapid_small", "ping", "MSG", FALSE, 10),
       Pat("rapid_medium", "echo", "MSG", FALSE, 10),
       Pat("potential_timeout", "slow_process", "MSG", FALSE, 5),
       Pat("burst", "ping", "MSG", FALSE, 10),
       Pat("burst", "get_info", "MSG", FALSE, 10),
       Pat("burst", "echo", "MSG", FALSE, 10) >>

NoPattern == Pat("none", "none", "", FALSE, 0)

----------------------------------------------------------------------------
(* What a sender process can print.  A stdout is the set of the fragments  *)
(* it holds; "MSG" is the pattern's message, verbatim.                     *)

StdoutSamples ==
    { {},
      {"other"},
      {"MSG"},
      {"Response: Success=true"},
      {"Response: Success=true", "pong"},
      {"Response: Success=true", "MSG"},
      {"Response: Success=true", "valid:false"},
      {"valid:false"},
      {"Response: Success=false", "valid:false"},
      {"Response: Success=false"} }

\* Needles that does not recognise a validity-false reply
Needles_NoValidity(frag) ==
    CASE frag = "Response: Success=true"  -> {"success", "true"}
      [] frag = "Response: Success=false" -> {"success", "false"}
      [] frag = "pong"                    -> {"pong"}
      [] OTHER                            -> {}

\* the lower-case needles a fragment contains
Needles(frag) ==
    CASE frag = "Response: Success=true"  -> {"success", "true"}
      [] frag = "Response: Success=false" -> {"success", "false"}
      [] frag = "pong"                    -> {"pong"}
      [] frag = "valid:false"             -> {"valid:false", "valid", "false"}
      [] OTHER                            -> {}

\* needle in stdout.lower()
InLower(needle, stdout) == \E frag \in stdout : needle \in Needles(frag)

\* InStdout that accepts any reply as an echo
InStdout_Any(message, stdout) == TRUE

\* original_message in stdout
InStdout(message, stdout) == message = "" \/ "MSG" \in stdout

\* re.search(r'Response:\s*Success=(\w+)', stdout): "none" when nothing matches
success_match(stdout) ==
    IF "Response: Success=true" \in stdout THEN "true"
    ELSE IF "Response: Success=false" \in stdout THEN "false"
    ELSE "none"

\* what subprocess.run can end in: an expired timeout, another exception, or
\* a completed process with its return code and output
SenderRuns ==
    [kind : {"timeout", "exception"}, returncode : {0}, stdout : {{}},
     stderr : {{}}]
    \cup [kind : {"completed"}, returncode : {0}, stdout : StdoutSamples,
          stderr : {{}}]
    \cup [kind : {"completed"}, returncode : {1}, stdout : {{}, {"other"}},
          stderr : {{}, {"payload too large"}}]

\* the sender runs possible against a listener in a given state: without a
\* bound listener no reply comes back, so none is printed
SenderRunsTo(l) ==
    IF l = "listening" THEN SenderRuns
    ELSE {run \in SenderRuns : run.stdout \subseteq {"other"}}

\* the sender runs of a long stress run: a reply that reports success, or
\* an expired timeout when no listener is bound or the request is a slow one
LongRunSenderRuns(l, p) ==
    {run \in SenderRunsTo(l) :
        \/ run.kind = "timeout"
             /\ (l # "listening"
                   \/ p.type \in {"large_payload", "potential_timeout"})
        \/ run.kind = "completed" /\ run.stdout = {"Response: Success=true"}}

NoResponse ==
    [success |-> FALSE, stdout |-> {}, stderr |-> {}, error_type |-> "none"]

\* _run_sender_with_enhanced_pattern, from the sender run to the response
\* dict; error_type "none" stands for a dict without that key
_run_sender_with_enhanced_pattern(run) ==
    IF run.kind = "timeout"
    THEN [success |-> FALSE, stdout |-> {}, stderr |-> {},
          error_type |-> "timeout"]
    ELSE IF run.kind = "exception"
    THEN [success |-> FALSE, stdout |-> {}, stderr |-> {},
          error_type |-> "exception"]
    ELSE LET socket_success ==
                 IF run.returncode = 0 /\ run.stdout # {}
                 THEN (IF success_match(run.stdout) # "none"
                       THEN success_match(run.stdout) = "true"
                       ELSE TRUE)
                 ELSE FALSE
             cli_success == run.returncode = 0
         IN  [success |-> socket_success,
              stdout |-> run.stdout,
              stderr |-> run.stderr,
              error_type |->
                  IF ~cli_success THEN "exit_code"
                  ELSE IF ~socket_success THEN "socket_error"
                  ELSE "none"]

\* _evaluate_pattern_response
_evaluate_pattern_response(p, r) ==
    IF p.expect_error
    THEN IF p.command = "validate" /\ p.type = "malformed_json"
         THEN r.success /\ InLower("valid:false", r.stdout)
         ELSE IF p.type = "oversized_payload"
         THEN ~r.success /\ ("payload too large" \in r.stderr
                             \/ "message too long" \in r.stderr)
         ELSE ~r.success
    ELSE IF ~p.expect_reply
    THEN r.success
    ELSE IF ~r.success
    THEN FALSE
    ELSE CASE p.command = "ping" ->
                  InLower("pong", r.stdout) \/ InLower("success", r.stdout)
           [] p.command = "echo" -> InStdout(p.message, r.stdout)
           [] p.command = "get_info" ->
                  InLower("implementation", r.stdout) \/ InLower("version", r.stdout)
                  \/ InLower("success", r.stdout)
           [] p.command = "validate" ->
                  InLower("valid", r.stdout) \/ InLower("true", r.stdout)
                  \/ InLower("success", r.stdout)
           [] p.command = "slow_process" ->
                  InLower("processed", r.stdout) \/ InLower("delay", r.stdout)
                  \/ InLower("success", r.stdout)
           [] OTHER -> TRUE

----------------------------------------------------------------------------
(* UnifiedTestSuite.run_stress_tests *)

\* a stats entry as created at lines 614 and 618
NewStats == [total |-> 0, success |-> 0, failed |-> 0]

\* EnsureKey without its membership test: the entry is created anew each time
EnsureKey_Reset(stats, key) ==
    [k \in DOMAIN stats \cup {key} |-> IF k = key THEN NewStats ELSE stats[k]]

\* `if key not in stats: stats[key] = {...}`
EnsureKey(stats, key) ==
    IF key \in DOMAIN stats THEN stats ELSE stats @@ (key :> NewStats)

\* stats[key][field] += 1
Bump(stats, key, field) ==
    [stats EXCEPT ![key] = [@ EXCEPT ![field] = @ + 1]]

\* BumpError that stores 1 in place of adding 1
BumpError_Overwrite(errs, tag) ==
    [t \in DOMAIN errs \cup {tag} |-> IF t = tag THEN 1 ELSE errs[t]]

\* error_types[error_type] = error_types.get(error_type, 0) + 1
BumpError(errs, tag) ==
    IF tag \in DOMAIN errs THEN [errs EXCEPT ![tag] = @ + 1]
    ELSE errs @@ (tag :> 1)

\* the error-type tag of a failed dispatch (line 639)
ErrorTag(r) == IF r.error_type = "none" THEN "unknown_error" ELSE r.error_type

server_name == available_impls[server_idx]

client_name == available_impls[client_idx]

\* TestResult, reduced to its name and status
TestResult(name, status) == [name |-> name, status |-> status]

\* what a step of the stress run leaves alone
StressFrame == UNCHANGED <<scenario, serverVars, requestVars, fnVars,
                          matrixVars, libVars, suiteVars, poolVars,
                comboVars, cwdVars, pipeVars>>

InitStressVars ==
    /\ build_successful \in [Impls -> BOOLEAN]
    /\ st_pc = "begin"
    /\ server_idx = 1
    /\ client_idx = 1
    /\ server_process = "None"
    /\ listener = "none"
    /\ now = 0
    /\ end_time = 0
    /\ pattern_index = 0
    /\ total_requests = 0
    /\ successful_requests = 0
    /\ failed_requests = 0
    /\ pattern_stats = NoStats
    /\ client_stats = NoStats
    /\ error_types = NoStats
    /\ pattern = NoPattern
    /\ response = NoResponse
    /\ results = << >>

\* lines 512-522: fewer than two available implementations end the run
StressBegin ==
    /\ st_pc = "begin"
    /\ st_pc' = IF Len(available_impls) < 2 THEN "returned" ELSE "server"
    /\ UNCHANGED <<build_successful, server_idx, client_idx, server_process, listener, now,
                   end_time, pattern_index, total_requests, successful_requests,
                   failed_requests, pattern_stats, client_stats, error_types,
                   pattern, response, results>>
    /\ StressFrame

\* what has become of a spawned listener when the sleep of line 545 is over:
\* still starting, bound to its socket, or gone without having bound it
ListenerStates == {"starting", "listening", "failed"}

\* lines 525-599: the next server of the outer loop; _start_listener returns
\* the process, or None when the spawn raised
StressStartServer ==
    /\ st_pc = "server"
    /\ server_idx <= Len(available_impls)
    /\ \E spawned \in BOOLEAN :
         IF ~spawned
         THEN /\ results' = Append(results,
                      TestResult(server_name, "ERROR"))
              /\ server_idx' = server_idx + 1
              /\ server_process' = "None"
              /\ listener' = "none"
              /\ UNCHANGED <<st_pc, end_time, pattern_index, total_requests,
                             successful_requests, failed_requests,
                             pattern_stats, client_stats, error_types>>
         ELSE /\ server_process' = "running"
              /\ listener' \in ListenerStates
              /\ end_time' = now + StressDuration
              /\ total_requests' = 0
              /\ successful_requests' = 0
              /\ failed_requests' = 0
              /\ pattern_index' = 0
              /\ pattern_stats' = NoStats
              /\ client_stats' = NoStats
              /\ error_types' = NoStats
              /\ st_pc' = "while"
              /\ UNCHANGED <<server_idx, results>>
    /\ UNCHANGED <<build_successful, client_idx, now, pattern, response>>
    /\ StressFrame

\* the listener binds its socket at a moment of its own choosing
ListenerBind ==
    /\ st_pc \in {"while", "for", "dispatch", "evaluate"}
    /\ listener = "starting"
    /\ listener' = "listening"
    /\ UNCHANGED <<build_successful, st_pc, server_idx, client_idx,
                   server_process, now, end_time, pattern_index, total_requests,
                   successful_requests, failed_requests, pattern_stats,
                   client_stats, error_types, pattern, response, results>>
    /\ StressFrame

\* lines 746-747: the outer loop is over
StressReturn ==
    /\ st_pc = "server"
    /\ server_idx > Len(available_impls)
    /\ st_pc' = "returned"
    /\ UNCHANGED <<build_successful, server_idx, client_idx, server_process, listener, now,
                   end_time, pattern_index, total_requests, successful_requests,
                   failed_requests, pattern_stats, client_stats, error_types,
                   pattern, response, results>>
    /\ StressFrame

\* line 601: while time.time() < end_time
StressWhile ==
    /\ st_pc = "while"
    /\ IF now < end_time
       THEN st_pc' = "for" /\ client_idx' = 1
       ELSE st_pc' = "finish" /\ UNCHANGED client_idx
    /\ UNCHANGED <<build_successful, server_idx, server_process, listener, now, end_time,
                   pattern_index, total_requests, successful_requests,
                   failed_requests, pattern_stats, client_stats, error_types,
                   pattern, response, results>>
    /\ StressFrame

\* StressFor without the deadline test of lines 604-605
StressFor_NoDeadlineCheck ==
    /\ st_pc = "for"
    /\ st_pc' = IF client_idx > Len(available_impls)
                THEN "while" ELSE "dispatch"
    /\ UNCHANGED <<build_successful, server_idx, client_idx, server_process, listener, now,
                   end_time, pattern_index, total_requests, successful_requests,
                   failed_requests, pattern_stats, client_stats, error_types,
                   pattern, response, results>>
    /\ StressFrame

\* lines 603-605: the next client, or the end of the for loop, or the break
StressFor ==
    /\ st_pc = "for"
    /\ st_pc' = IF client_idx > Len(available_impls) \/ now >= end_time
                THEN "while" ELSE "dispatch"
    /\ UNCHANGED <<build_successful, server_idx, client_idx, server_process, listener, now,
                   end_time, pattern_index, total_requests, successful_requests,
                   failed_requests, pattern_stats, client_stats, error_types,
                   pattern, response, results>>
    /\ StressFrame

\* the number of requests a run of the model sends to one server at most
RequestCap ==
    IF scenario = "order" THEN MaxDispatch
    ELSE IF scenario = "deadline" THEN MaxLive
    ELSE MaxRequests

\* how long a sender run may take, in ticks: the last request the model
\* allows runs into the deadline
SenderTicks ==
    IF total_requests + 1 >= RequestCap THEN {StressDuration} ELSE {0, 1}

\* PatternAt without the wrap-around: past the end the last pattern is used
PatternAt_Clamped(index) ==
    test_patterns[IF index < Len(test_patterns)
                  THEN index + 1 ELSE Len(test_patterns)]

\* line 608: test_patterns[pattern_index % len(test_patterns)]
PatternAt(index) == test_patterns[(index % Len(test_patterns)) + 1]

\* CountTotals that leaves the client's total out
CountTotals_NoClientTotal(pattern_type, client) ==
    /\ total_requests' = total_requests + 1
    /\ pattern_stats' =
           Bump(EnsureKey(pattern_stats, pattern_type), pattern_type, "total")
    /\ client_stats' = EnsureKey(client_stats, client)

\* lines 620-624: the totals after the sender returned
CountTotals(pattern_type, client) ==
    /\ total_requests' = total_requests + 1
    /\ pattern_stats' =
           Bump(EnsureKey(pattern_stats, pattern_type), pattern_type, "total")
    /\ client_stats' = Bump(EnsureKey(client_stats, client), client, "total")

\* lines 607-624: one dispatch, up to the totals
StressDispatch ==
    /\ st_pc = "dispatch"
    /\ LET p == PatternAt(pattern_index)
       IN  /\ pattern' = p
           /\ pattern_index' = pattern_index + 1
           /\ \E run \in (IF scenario = "order"
                          THEN LongRunSenderRuns(listener, p)
                          ELSE SenderRunsTo(listener)), d \in SenderTicks :
                /\ response' = _run_sender_with_enhanced_pattern(run)
                /\ now' = now + d
           /\ CountTotals(p.type, client_name)
    /\ st_pc' = "evaluate"
    /\ UNCHANGED <<build_successful, server_idx, client_idx, server_process, listener,
                   end_time, successful_requests, failed_requests, error_types,
                   results>>
    /\ StressFrame

\* CountOutcome with the failure branch taken after the success branch too
CountOutcome_Both(request_successful, pattern_type, client) ==
    /\ successful_requests' =
           successful_requests + (IF request_successful THEN 1 ELSE 0)
    /\ failed_requests' = failed_requests + 1
    /\ pattern_stats' =
           Bump(IF request_successful
                THEN Bump(pattern_stats, pattern_type, "success")
                ELSE pattern_stats, pattern_type, "failed")
    /\ client_stats' =
           Bump(IF request_successful
                THEN Bump(client_stats, client, "success")
                ELSE client_stats, client, "failed")
    /\ error_types' = BumpError(error_types, ErrorTag(response))

\* lines 629-640: the request counted as a success or as a failure
CountOutcome(request_successful, pattern_type, client) ==
    IF request_successful
    THEN /\ successful_requests' = successful_requests + 1
         /\ pattern_stats' = Bump(pattern_stats, pattern_type, "success")
         /\ client_stats' = Bump(client_stats, client, "success")
         /\ UNCHANGED <<failed_requests, error_types>>
    ELSE /\ failed_requests' = failed_requests + 1
         /\ pattern_stats' = Bump(pattern_stats, pattern_type, "failed")
         /\ client_stats' = Bump(client_stats, client, "failed")
         /\ error_types' = BumpError(error_types, ErrorTag(response))
         /\ UNCHANGED successful_requests

\* AfterRequest that gives the run up at the first failed request
AfterRequest_AbortOnFailure(request_successful) ==
    IF request_successful THEN "for" ELSE "finish"

\* lines 629-672: whatever the outcome of the request, control falls through
\* to the next iteration of the for loop
AfterRequest(request_successful) == "for"

\* lines 626-672: the outcome counted, then the progress log and the pacing
\* sleep (well under a tick), and on to the next client
StressEvaluate ==
    /\ st_pc = "evaluate"
    /\ CountOutcome(_evaluate_pattern_response(pattern, response),
                    pattern.type, client_name)
    /\ client_idx' = client_idx + 1
    /\ st_pc' = AfterRequest(_evaluate_pattern_response(pattern, response))
    /\ pattern' = NoPattern
    /\ response' = NoResponse
    /\ UNCHANGED <<build_successful, server_idx, server_process, listener, now, end_time,
                   pattern_index, total_requests, results>>
    /\ StressFrame

\* Verdict with a strict comparison
Verdict_Strict(successful, total) ==
    IF total > 0 /\ successful * 100 > 95 * total THEN "PASS" ELSE "FAIL"

\* lines 678-686: success_rate >= 95.0
Verdict(successful, total) ==
    IF total > 0 /\ successful * 100 >= 95 * total THEN "PASS" ELSE "FAIL"

\* lines 674-744: the server is terminated and its TestResult recorded
StressFinish ==
    /\ st_pc = "finish"
    /\ server_process' = "terminated"
    /\ listener' = "none"
    /\ results' = Append(results,
           TestResult(server_name,
                      Verdict(successful_requests, total_requests)))
    /\ server_idx' = server_idx + 1
    /\ st_pc' = "server"
    /\ UNCHANGED <<build_successful, client_idx, now, end_time, pattern_index,
                   total_requests, successful_requests, failed_requests,
                   pattern_stats, client_stats, error_types, pattern, response>>
    /\ StressFrame

NextStress ==
    \/ StressBegin
    \/ StressStartServer
    \/ ListenerBind
    \/ StressReturn
    \/ StressWhile
    \/ StressFor
    \/ StressDispatch
    \/ StressEvaluate
    \/ StressFinish

\* the steps of the thread that runs run_stress_tests
HarnessStep ==
    \/ StressBegin
    \/ StressStartServer
    \/ StressReturn
    \/ StressWhile
    \/ StressFor
    \/ StressDispatch
    \/ StressEvaluate
    \/ StressFinish

\* the server model at rest
IdleServerVars ==
    /\ implementation = "go"
    /\ sm_pc = "idle"
    /\ sm_process = "None"
    /\ ready = FALSE
    /\ error_message = ""
    /\ start_time = 0
    /\ started = "pending"
    /\ in_pair = FALSE
    /\ stops = 0
    /\ proc = "notspawned"
    /\ pipe = << >>
    /\ printed = 0
    /\ socket_file = FALSE
    /\ bound = FALSE
    /\ killed = FALSE

\* the worker threads of a pool, by thread identifier
Threads == {1, 2}

NoPath == <<"none", 0, 0>>

NoReply == [from |-> 0, seq |-> 0]

\* the request clients at rest
IdleRequestVars ==
    /\ req_kind = "send_message"
    /\ target_up = FALSE
    /\ r_reply = [w \in Threads |-> "none"]
    /\ r_pc = [w \in Threads |-> "idle"]
    /\ r_path = [w \in Threads |-> NoPath]
    /\ r_seq = [w \in Threads |-> 0]
    /\ r_bound = [w \in Threads |-> FALSE]
    /\ r_result = [w \in Threads |-> "none"]
    /\ r_got = [w \in Threads |-> NoReply]
    /\ reply_files = {}
    /\ srv_queue = {}
    /\ inbox = [w \in Threads |-> {}]

\* no function call under way
IdleFnVars == fn_in = << >> /\ fn_out = << >>

\* no matrix run under way
IdleMatrixVars ==
    /\ mx_pc = "idle"
    /\ listener_idx = 1
    /\ sender_idx = 1
    /\ mx_results = << >>

\* no library matrix run under way
IdleLibVars ==
    /\ lm_pc = "idle"
    /\ critical_results = << >>
    /\ lm_client = 1
    /\ lm_server = 1
    /\ lm_results = << >>

\* the process handles a run of the suite can create
Procs == 1 .. MaxProcs

\* a process Popen has not created yet
NoProcess == [impl |-> "none", state |-> "none"]

\* no run of the suite under way
IdleSuiteVars ==
    /\ su_pc = "idle"
    /\ running_processes = << >>
    /\ children = [p \in Procs |-> NoProcess]
    /\ pending = 0
    /\ held = 0
    /\ socket_files = {}
    /\ cleanups = 0

\* no worker pool under way
IdlePoolVars ==
    /\ pool_kind = "none"
    /\ pool_pc = "idle"
    /\ deadline = FALSE
    /\ w_pc = [w \in Threads |-> "idle"]
    /\ w_requests = [w \in Threads |-> 0]
    /\ w_failures = [w \in Threads |-> 0]
    /\ w_begun = [w \in Threads |-> 0]
    /\ w_done = [w \in Threads |-> 0]
    /\ collected = {}
    /\ pool_requests = 0
    /\ pool_failures = 0

\* test_orchestrator.py lines 414-417: self_communication followed by
\* cross_communication, as the configuration lists them
all_combinations ==
    << [server |-> "go", client |-> "go"],
       [server |-> "go", client |-> "rust"],
       [server |-> "rust", client |-> "go"] >>

Combos == 1 .. Len(all_combinations)

\* no run of TestOrchestrator.run_cross_platform_tests under way
IdleComboVars ==
    /\ xp_pc = "idle"
    /\ combo = 1
    /\ server_procs = [c \in Combos |-> "notspawned"]
    /\ xp_socket = [i \in Impls |-> 0]
    /\ server_proc = 0
    /\ xp_polls = 0
    /\ served = {}
    /\ raised = FALSE

\* no helper of ComprehensiveTestSuite under way
IdleCwdVars ==
    /\ cwd = "tests"
    /\ cw_fn = "none"
    /\ cw_pc = [t \in Threads |-> "idle"]
    /\ original_cwd = [t \in Threads |-> "none"]

\* no run of run_all_tests under way
IdlePipeVars ==
    /\ categories = {}
    /\ pl_pc = "idle"
    /\ pl_idx = 1
    /\ build_status = [i \in Impls |-> "none"]
    /\ unit_status = [i \in Impls |-> "none"]
    /\ unit_ran = {}

InitStress ==
    /\ scenario = "stress"
    /\ InitStressVars
    /\ IdleServerVars
    /\ IdleRequestVars
    /\ IdleFnVars
    /\ IdleMatrixVars
    /\ IdleLibVars
    /\ IdleSuiteVars
    /\ IdlePoolVars
    /\ IdleComboVars
    /\ IdleCwdVars
    /\ IdlePipeVars

SpecStress == InitStress /\ [][NextStress]_vars

InitDeadline ==
    /\ scenario = "deadline"
    /\ InitStressVars
    /\ IdleServerVars
    /\ IdleRequestVars
    /\ IdleFnVars
    /\ IdleMatrixVars
    /\ IdleLibVars
    /\ IdleSuiteVars
    /\ IdlePoolVars
    /\ IdleComboVars
    /\ IdleCwdVars
    /\ IdlePipeVars

\* run_stress_tests is one thread that is never held up for ever: the sleeps
\* are finite and subprocess.run returns within its timeout (lines 819-825
\* and 875-881)
SpecStressLive == InitDeadline /\ [][NextStress]_vars /\ WF_vars(HarnessStep)

\* a stress run long enough to go round the pattern catalog
InitOrder ==
    /\ scenario = "order"
    /\ InitStressVars
    /\ IdleServerVars
    /\ IdleRequestVars
    /\ IdleFnVars
    /\ IdleMatrixVars
    /\ IdleLibVars
    /\ IdleSuiteVars
    /\ IdlePoolVars
    /\ IdleComboVars
    /\ IdleCwdVars
    /\ IdlePipeVars

SpecOrder == InitOrder /\ [][NextStress]_vars

----------------------------------------------------------------------------
(* ServerManager and run_cross_platform_test.  Time is in ticks of 0.1 s.  *)
(* The code takes no time except where it sleeps or blocks.                *)

\* _wait_for_ready's timeout of 10.0 s
ReadyTimeout == 100
\* time.sleep(0.5) once the socket file is seen
SettleDelay == 5
\* time.sleep(0.1) between two polls
PollInterval == 1
\* process.wait(timeout=5)
StopWait == 50

\* the manager's fields the listener's own steps leave alone
mgrVars == <<implementation, sm_pc, sm_process, ready, error_message,
             start_time, started, in_pair, stops, now>>

\* the fields of the stress run and of the listener's environment
stressRest == <<build_successful, st_pc, server_idx, client_idx, server_process,
                listener, end_time, pattern_index, total_requests, successful_requests,
                failed_requests, pattern_stats, client_stats, error_types,
                pattern, response, results>>

\* what a step of the server model leaves alone
ServerFrame == UNCHANGED <<scenario, stressRest, requestVars, fnVars,
                          matrixVars, libVars, suiteVars, poolVars,
                comboVars, cwdVars, pipeVars>>

InitServerVars ==
    /\ implementation \in {"go", "unknown"}
    /\ sm_pc = "start"
    /\ sm_process = "None"
    /\ ready = FALSE
    /\ error_message = ""
    /\ start_time = 0
    /\ started = "pending"
    /\ in_pair = TRUE
    /\ stops = 0
    /\ proc = "notspawned"
    /\ pipe = << >>
    /\ printed = 0
    /\ socket_file \in BOOLEAN      \* a stale file of an earlier run, or none
    /\ bound = FALSE
    /\ killed = FALSE

\* ---- the spawned listener, a black box ----

\* it writes a line to its stdout
ProcPrint ==
    /\ proc = "alive"
    /\ printed < MaxLines
    /\ \E line \in {"SERVER_READY", "log"} : pipe' = Append(pipe, line)
    /\ printed' = printed + 1
    /\ UNCHANGED <<proc, socket_file, bound, killed>>
    /\ UNCHANGED mgrVars
    /\ ServerFrame

\* it binds its socket, creating the file
ProcBind ==
    /\ proc = "alive"
    /\ ~bound
    /\ bound' = TRUE
    /\ socket_file' = TRUE
    /\ UNCHANGED <<proc, pipe, printed, killed>>
    /\ UNCHANGED mgrVars
    /\ ServerFrame

\* it exits, by itself or on SIGTERM, removing its socket file or leaving it
ProcExit ==
    /\ proc = "alive"
    /\ proc' = "exited"
    /\ \/ UNCHANGED socket_file
       \/ socket_file' = FALSE
    /\ UNCHANGED <<pipe, printed, bound, killed>>
    /\ UNCHANGED mgrVars
    /\ ServerFrame

\* ---- ServerManager.start ----

\* the manager returns from start with this result
StartReturns(result) ==
    /\ started' = (IF result THEN "True" ELSE "False")
    /\ IF result
       THEN sm_pc' = "client" /\ UNCHANGED in_pair
       ELSE sm_pc' = "returned" /\ in_pair' = FALSE

\* RemoveStale that leaves the file where it is
RemoveStale_Keep(exists) == exists

\* lines 486-488: if os.path.exists(self.socket_path): os.unlink(...); the
\* result is whether a file exists at the path afterwards
RemoveStale(exists) == FALSE

\* lines 484-500 and the start_*_server methods up to the spawn: the stale
\* socket file is removed; an unknown implementation, a failed build or a
\* failing Popen return False; otherwise the listener is spawned
start ==
    /\ sm_pc = "start"
    /\ socket_file' = RemoveStale(socket_file)
    /\ IF implementation = "unknown"
       THEN /\ error_message' = "Unknown implementation"
            /\ StartReturns(FALSE)
            /\ UNCHANGED <<sm_process, proc>>
       ELSE \E outcome \in {"build_failed", "popen_raised", "spawned"} :
              IF outcome = "spawned"
              THEN /\ sm_process' = "Popen"
                   /\ proc' = "alive"
                   /\ sm_pc' = "wait_begin"
                   /\ UNCHANGED <<error_message, started, in_pair>>
              ELSE /\ error_message' = outcome
                   /\ StartReturns(FALSE)
                   /\ UNCHANGED <<sm_process, proc>>
    /\ UNCHANGED <<implementation, ready, start_time, stops, now, pipe, printed,
                   bound, killed>>
    /\ ServerFrame

\* ---- ServerManager._wait_for_ready ----

\* lines 452-455
WaitBegin ==
    /\ sm_pc = "wait_begin"
    /\ IF sm_process = "None"
       THEN StartReturns(FALSE) /\ UNCHANGED start_time
       ELSE /\ start_time' = now
            /\ sm_pc' = "wait_while"
            /\ UNCHANGED <<started, in_pair>>
    /\ UNCHANGED <<implementation, sm_process, ready, error_message, stops, now,
                   proc, pipe, printed, socket_file, bound, killed>>
    /\ ServerFrame

\* lines 456 and 481-482: the loop test, and the timeout after the loop
WaitWhile ==
    /\ sm_pc = "wait_while"
    /\ IF now - start_time < ReadyTimeout
       THEN /\ sm_pc' = "wait_poll"
            /\ UNCHANGED <<error_message, started, in_pair>>
       ELSE /\ error_message' = "Timeout waiting for server to start"
            /\ StartReturns(FALSE)
    /\ UNCHANGED <<implementation, sm_process, ready, start_time, stops, now,
                   proc, pipe, printed, socket_file, bound, killed>>
    /\ ServerFrame

\* lines 458-461: a listener that has exited ends the poll
WaitPoll ==
    /\ sm_pc = "wait_poll"
    /\ IF proc = "exited"
       THEN /\ error_message' = "Server exited early"
            /\ pipe' = << >>
            /\ StartReturns(FALSE)
       ELSE /\ sm_pc' = "wait_readline"
            /\ UNCHANGED <<error_message, pipe, started, in_pair>>
    /\ UNCHANGED <<implementation, sm_process, ready, start_time, stops, now,
                   proc, printed, socket_file, bound, killed>>
    /\ ServerFrame

\* WaitReadline that takes any line of output for the ready signal
WaitReadline_AnyLine ==
    /\ sm_pc = "wait_readline"
    /\ pipe # << >> \/ proc = "exited"
    /\ LET line == IF pipe # << >> THEN Head(pipe) ELSE ""
       IN  /\ pipe' = IF pipe # << >> THEN Tail(pipe) ELSE pipe
           /\ IF line # ""
              THEN ready' = TRUE /\ StartReturns(TRUE)
              ELSE /\ sm_pc' = "wait_exists"
                   /\ UNCHANGED <<ready, started, in_pair>>
    /\ UNCHANGED <<implementation, sm_process, error_message, start_time, stops,
                   now, proc, printed, socket_file, bound, killed>>
    /\ ServerFrame

\* lines 464-470: readline() returns the next line, or "" at end of file; it
\* blocks while the listener is alive and has written nothing
WaitReadline ==
    /\ sm_pc = "wait_readline"
    /\ pipe # << >> \/ proc = "exited"
    /\ LET line == IF pipe # << >> THEN Head(pipe) ELSE ""
       IN  /\ pipe' = IF pipe # << >> THEN Tail(pipe) ELSE pipe
           /\ IF line = "SERVER_READY"
              THEN ready' = TRUE /\ StartReturns(TRUE)
              ELSE /\ sm_pc' = "wait_exists"
                   /\ UNCHANGED <<ready, started, in_pair>>
    /\ UNCHANGED <<implementation, sm_process, error_message, start_time, stops,
                   now, proc, printed, socket_file, bound, killed>>
    /\ ServerFrame

\* the clock runs on while readline() blocks
WaitBlocked ==
    /\ sm_pc = "wait_readline"
    /\ pipe = << >>
    /\ proc = "alive"
    /\ now < MaxTime
    /\ now' = now + 1
    /\ UNCHANGED <<implementation, sm_pc, sm_process, ready, error_message,
                   start_time, started, in_pair, stops, proc, pipe, printed,
                   socket_file, bound, killed>>
    /\ ServerFrame

\* lines 472-479: the socket file, then the settle delay or the poll interval
WaitExists ==
    /\ sm_pc = "wait_exists"
    /\ IF socket_file
       THEN /\ now' = now + SettleDelay
            /\ ready' = TRUE
            /\ StartReturns(TRUE)
       ELSE /\ now' = now + PollInterval
            /\ sm_pc' = "wait_while"
            /\ UNCHANGED <<ready, started, in_pair>>
    /\ UNCHANGED <<implementation, sm_process, error_message, start_time, stops,
                   proc, pipe, printed, socket_file, bound, killed>>
    /\ ServerFrame

\* ---- run_cross_platform_test, lines 1201-1219: the client test ----

PairClient ==
    /\ sm_pc = "client"
    /\ sm_pc' = "stop"
    /\ UNCHANGED <<implementation, sm_process, ready, error_message, start_time,
                   started, in_pair, stops, now, proc, pipe, printed,
                   socket_file, bound, killed>>
    /\ ServerFrame

\* ---- ServerManager.stop ----

\* a caller stops the manager once more after run_cross_platform_test
StopCall ==
    /\ sm_pc = "returned"
    /\ stops < MaxStops
    /\ sm_pc' = "stop"
    /\ UNCHANGED <<implementation, sm_process, ready, error_message, start_time,
                   started, in_pair, stops, now, proc, pipe, printed,
                   socket_file, bound, killed>>
    /\ ServerFrame

\* lines 504-507: terminate() when there is a process
StopBegin ==
    /\ sm_pc = "stop"
    /\ sm_pc' = IF sm_process # "None" THEN "stop_wait" ELSE "stop_unlink"
    /\ UNCHANGED <<implementation, sm_process, ready, error_message, start_time,
                   started, in_pair, stops, now, proc, pipe, printed,
                   socket_file, bound, killed>>
    /\ ServerFrame

\* line 508: wait(timeout=5) returns, the listener has exited
StopWaitReturn ==
    /\ sm_pc = "stop_wait"
    /\ proc = "exited"
    /\ sm_pc' = "stop_clear"
    /\ UNCHANGED <<implementation, sm_process, ready, error_message, start_time,
                   started, in_pair, stops, now, proc, pipe, printed,
                   socket_file, bound, killed>>
    /\ ServerFrame

\* Escalate without the kill: the expired wait is swallowed
Escalate_NoKill == UNCHANGED <<proc, killed>>

\* lines 509-512: the wait expired; kill() and wait()
Escalate ==
    /\ proc' = "exited"
    /\ killed' = TRUE

StopWaitTimeout ==
    /\ sm_pc = "stop_wait"
    /\ proc = "alive"
    /\ now' = now + StopWait
    /\ Escalate
    /\ sm_pc' = "stop_clear"
    /\ UNCHANGED <<implementation, sm_process, ready, error_message, start_time,
                   started, in_pair, stops, pipe, printed, socket_file, bound>>
    /\ ServerFrame

\* ClearHandle that forgets to drop the process handle
ClearHandle_KeepsProcess ==
    /\ UNCHANGED sm_process
    /\ ready' = FALSE

\* lines 514-515
ClearHandle ==
    /\ sm_process' = "None"
    /\ ready' = FALSE

StopClear ==
    /\ sm_pc = "stop_clear"
    /\ ClearHandle
    /\ sm_pc' = "stop_unlink"
    /\ UNCHANGED <<implementation, error_message, start_time, started, in_pair,
                   stops, now, proc, pipe, printed, socket_file, bound, killed>>
    /\ ServerFrame

\* lines 517-522, and the return to the caller
StopUnlink ==
    /\ sm_pc = "stop_unlink"
    /\ socket_file' = FALSE
    /\ stops' = stops + 1
    /\ in_pair' = FALSE
    /\ sm_pc' = "returned"
    /\ UNCHANGED <<implementation, sm_process, ready, error_message, start_time,
                   started, now, proc, pipe, printed, bound, killed>>
    /\ ServerFrame

NextServer ==
    \/ ProcPrint
    \/ ProcBind
    \/ ProcExit
    \/ start
    \/ WaitBegin
    \/ WaitWhile
    \/ WaitPoll
    \/ WaitReadline
    \/ WaitBlocked
    \/ WaitExists
    \/ PairClient
    \/ StopCall
    \/ StopBegin
    \/ StopWaitReturn
    \/ StopWaitTimeout
    \/ StopClear
    \/ StopUnlink

\* the stress run at rest
IdleStressVars ==
    /\ build_successful = [i \in Impls |-> FALSE]
    /\ st_pc = "idle"
    /\ server_idx = 1
    /\ client_idx = 1
    /\ server_process = "None"
    /\ listener = "none"
    /\ end_time = 0
    /\ pattern_index = 0
    /\ total_requests = 0
    /\ successful_requests = 0
    /\ failed_requests = 0
    /\ pattern_stats = NoStats
    /\ client_stats = NoStats
    /\ error_types = NoStats
    /\ pattern = NoPattern
    /\ response = NoResponse
    /\ results = << >>

InitServer ==
    /\ scenario = "server"
    /\ InitServerVars
    /\ IdleStressVars
    /\ IdleRequestVars
    /\ IdleFnVars
    /\ IdleMatrixVars
    /\ IdleLibVars
    /\ IdleSuiteVars
    /\ IdlePoolVars
    /\ IdleComboVars
    /\ IdleCwdVars
    /\ IdlePipeVars
    /\ now = 0

SpecServer == InitServer /\ [][NextServer]_vars

\* ---- test_critical_combinations: a pair run under signal.alarm ----

\* where run_cross_platform_test is while server.start has not returned
StartPcs ==
    {"start", "wait_begin", "wait_while", "wait_poll", "wait_readline",
     "wait_exists"}

\* lines 1236-1241 and 1253-1259: SIGALRM arrives and timeout_handler
\* raises TimeoutError in run_cross_platform_test.  Inside the try block of
\* lines 1201-1223 the finally block stops the server on the way out; in
\* server.start, line 1195, no handler is in the way, and the except clause
\* of test_critical_combinations records the timeout
AlarmRaises ==
    /\ in_pair
    /\ sm_pc \in StartPcs \cup {"client"}
    /\ IF sm_pc = "client"
       THEN sm_pc' = "stop" /\ UNCHANGED in_pair
       ELSE sm_pc' = "returned" /\ in_pair' = FALSE
    /\ UNCHANGED <<implementation, sm_process, ready, error_message, start_time,
                   started, stops, now, proc, pipe, printed, socket_file,
                   bound, killed>>
    /\ ServerFrame

NextCritical ==
    \/ NextServer
    \/ AlarmRaises

InitCritical ==
    /\ scenario = "critical"
    /\ InitServerVars
    /\ IdleStressVars
    /\ IdleRequestVars
    /\ IdleFnVars
    /\ IdleMatrixVars
    /\ IdleLibVars
    /\ IdleSuiteVars
    /\ IdlePoolVars
    /\ IdleComboVars
    /\ IdleCwdVars
    /\ IdlePipeVars
    /\ now = 0

SpecCritical == InitCritical /\ [][NextCritical]_vars

----------------------------------------------------------------------------
(* The datagram request clients: PerformanceBenchmark.send_message,        *)
(* ComprehensiveBenchmark.send_request (both run by the threads of a       *)
(* worker pool) and ManifestValidator._test_command (run by one thread).   *)
(* The clock counts microseconds, the unit of the reply path's time stamp. *)

RequestKinds ==
    {"send_message", "send_request", "_test_command", "simple.send_request"}

\* the threads that run requests of this kind
Workers ==
    IF req_kind \in {"_test_command", "measure_latency"} THEN {1} ELSE Threads

\* quick_benchmark.py line 38: the iterations of one call of measure_latency
Iterations == 1

\* what reply_path is built from besides the time: the thread identifier,
\* or in measure_latency the loop index i of the call the request belongs to
PathIdent(kind, w) ==
    IF kind = "measure_latency" THEN r_seq[w] % Iterations ELSE w

\* ReplyPath without the thread identifier
ReplyPath_NoIdent(kind, ident, t) ==
    CASE kind \in {"send_message", "simple.send_request"} ->
             <<"/tmp/bench_reply_", 0, t>>
      [] kind = "send_request" -> <<"/tmp/bench_", 0, t>>
      [] kind = "measure_latency" -> <<"/tmp/bench_", ident, -1>>
      [] OTHER                 -> <<"/tmp/test_reply_", 0, t>>

\* reply_path: the prefix, threading.get_ident() where the code uses it, and
\* int(time.time() * 1000000)
ReplyPath(kind, ident, t) ==
    CASE kind \in {"send_message", "simple.send_request"} ->
             <<"/tmp/bench_reply_", ident, t>>
      [] kind = "send_request" -> <<"/tmp/bench_", ident, t>>
      [] kind = "measure_latency" -> <<"/tmp/bench_", ident, -1>>
      [] OTHER                 -> <<"/tmp/test_reply_", 0, t>>

\* os.unlink that removes nothing
Unlink_Noop(files, path) == files

\* os.unlink(path): whatever file is at the path goes
Unlink(files, path) == {f \in files : f[1] # path}

\* the unlink of the finally block, skipped unless the reply was parsed
FinallyUnlink_OnlyOnSuccess(files, path, result) ==
    IF result = "ok" THEN Unlink(files, path) ELSE files

\* the finally block's unlink: on every exit path of the request
FinallyUnlink(files, path, result) == Unlink(files, path)

\* os.path.exists(path)
Exists(files, path) == \E f \in files : f[1] = path

\* what a step of the request model leaves alone
RequestFrame == UNCHANGED <<scenario, stressRest, serverVars, fnVars,
                          matrixVars, libVars, suiteVars, poolVars,
                comboVars, cwdVars, pipeVars>>

InitRequestVars ==
    /\ req_kind \in RequestKinds \cup {"measure_latency"}
    /\ target_up \in BOOLEAN
    /\ r_reply = [w \in Threads |-> "none"]
    /\ r_pc = [w \in Threads |-> "idle"]
    /\ r_path = [w \in Threads |-> NoPath]
    /\ r_seq = [w \in Threads |-> 0]
    /\ r_bound = [w \in Threads |-> FALSE]
    /\ r_result = [w \in Threads |-> "none"]
    /\ r_got = [w \in Threads |-> NoReply]
    /\ reply_files = {}
    /\ srv_queue = {}
    /\ inbox = [w \in Threads |-> {}]

\* the socket is created and reply_path generated; socket() may raise
ReqOpen(w) ==
    /\ r_pc[w] = "idle"
    /\ r_seq[w] < MaxReqs
    /\ r_seq' = [r_seq EXCEPT ![w] = @ + 1]
    /\ r_got' = [r_got EXCEPT ![w] = NoReply]
    /\ r_reply' = [r_reply EXCEPT ![w] = "none"]
    /\ \/ /\ r_path' = [r_path EXCEPT
                         ![w] = ReplyPath(req_kind, PathIdent(req_kind, w), now)]
          /\ r_pc' = [r_pc EXCEPT ![w] = "bind"]
          /\ r_result' = [r_result EXCEPT ![w] = "none"]
       \/ /\ r_result' = [r_result EXCEPT ![w] = "socket_failed"]
          /\ r_path' = [r_path EXCEPT ![w] = NoPath]
          /\ UNCHANGED r_pc
    /\ UNCHANGED <<req_kind, target_up, r_bound, reply_files, srv_queue, inbox,
                   now>>
    /\ RequestFrame

\* bind(reply_path): creates the file, or raises when one is there
ReqBind(w) ==
    /\ r_pc[w] = "bind"
    /\ IF Exists(reply_files, r_path[w])
       THEN /\ r_result' = [r_result EXCEPT ![w] = "bind_failed"]
            /\ r_pc' = [r_pc EXCEPT ![w] = "cleanup"]
            /\ UNCHANGED <<reply_files, r_bound>>
       ELSE /\ reply_files' = reply_files \cup {<<r_path[w], w>>}
            /\ r_bound' = [r_bound EXCEPT ![w] = TRUE]
            /\ r_pc' = [r_pc EXCEPT ![w] = "send"]
            /\ UNCHANGED r_result
    /\ UNCHANGED <<req_kind, target_up, r_reply, r_path, r_seq, r_got, srv_queue,
                   inbox, now>>
    /\ RequestFrame

\* SendOutcomes for a transport that drops a datagram it cannot deliver
SendOutcomes_SilentDrop(up) == {"sent", "raised"}

\* how sendto(message, socket_path) can end: with no socket at socket_path it
\* raises at once; with one, the datagram is queued or the call raises
SendOutcomes(up) == IF up THEN {"sent", "raised"} ELSE {"raised"}

\* the reply datagrams a listener can send: one with a success marker, a
\* well-formed error reply (its status or success field says failure), a
\* well-formed JSON object without either field, and bytes that are not JSON
ReplyKinds == {"success", "error", "unmarked", "garbage"}

\* sendto(message, socket_path): the datagram reaches the listener, or the
\* call raises
ReqSend(w) ==
    /\ r_pc[w] = "send"
    /\ \E outcome \in SendOutcomes(target_up) :
         IF outcome = "sent"
         THEN /\ srv_queue' = srv_queue \cup
                     {[from |-> w, seq |-> r_seq[w], reply_to |-> r_path[w]]}
              /\ r_pc' = [r_pc EXCEPT ![w] = "recv"]
              /\ UNCHANGED r_result
         ELSE /\ r_result' = [r_result EXCEPT ![w] = "send_failed"]
              /\ r_pc' = [r_pc EXCEPT ![w] = "cleanup"]
              /\ UNCHANGED srv_queue
    /\ UNCHANGED <<req_kind, target_up, r_reply, r_path, r_seq, r_bound, r_got,
                   reply_files, inbox, now>>
    /\ RequestFrame

\* the listener answers a request: one datagram to its reply_to, dropped
\* when no socket file is there
SrvReply ==
    /\ \E q \in srv_queue :
         /\ srv_queue' = srv_queue \ {q}
         /\ IF Exists(reply_files, q.reply_to)
            THEN LET f == CHOOSE g \in reply_files : g[1] = q.reply_to
                 IN  inbox' = [inbox EXCEPT ![f[2]] =
                                   @ \cup {[from |-> q.from, seq |-> q.seq]}]
            ELSE UNCHANGED inbox
    /\ UNCHANGED <<req_kind, target_up, r_reply, r_pc, r_path, r_seq, r_bound,
                   r_result, r_got, reply_files, now>>
    /\ RequestFrame

\* recvfrom returns a datagram; json.loads parses it or raises
ReqRecv(w) ==
    /\ r_pc[w] = "recv"
    /\ \E d \in inbox[w] :
         /\ r_got' = [r_got EXCEPT ![w] = d]
         /\ inbox' = [inbox EXCEPT ![w] = @ \ {d}]
    /\ \E reply \in ReplyKinds :
         /\ r_reply' = [r_reply EXCEPT ![w] = reply]
         /\ r_result' = [r_result EXCEPT ![w] =
                             IF reply # "garbage" THEN "ok" ELSE "parse_error"]
    /\ r_pc' = [r_pc EXCEPT ![w] = "cleanup"]
    /\ UNCHANGED <<req_kind, target_up, r_path, r_seq, r_bound, reply_files,
                   srv_queue, now>>
    /\ RequestFrame

\* recvfrom times out: seconds later, so the clock has moved on
ReqTimeout(w) ==
    /\ r_pc[w] = "recv"
    /\ inbox[w] = {}
    /\ now < MaxClock
    /\ now' = now + 1
    /\ r_result' = [r_result EXCEPT ![w] = "timeout"]
    /\ r_pc' = [r_pc EXCEPT ![w] = "cleanup"]
    /\ UNCHANGED <<req_kind, target_up, r_reply, r_path, r_seq, r_bound, r_got,
                   reply_files, srv_queue, inbox>>
    /\ RequestFrame

\* the finally block: close() and os.unlink(reply_path), then the return
ReqCleanup(w) ==
    /\ r_pc[w] = "cleanup"
    /\ inbox' = [inbox EXCEPT ![w] = {}]
    /\ reply_files' = FinallyUnlink(reply_files, r_path[w], r_result[w])
    /\ r_bound' = [r_bound EXCEPT ![w] = FALSE]
    /\ r_pc' = [r_pc EXCEPT ![w] = "idle"]
    /\ UNCHANGED <<req_kind, target_up, r_reply, r_path, r_seq, r_result, r_got,
                   srv_queue, now>>
    /\ RequestFrame

\* a microsecond passes
ClockTick ==
    /\ now < MaxClock
    /\ now' = now + 1
    /\ UNCHANGED requestVars
    /\ RequestFrame

NextRequest ==
    \/ \E w \in Workers : ReqOpen(w)
    \/ \E w \in Workers : ReqBind(w)
    \/ \E w \in Workers : ReqSend(w)
    \/ SrvReply
    \/ \E w \in Workers : ReqRecv(w)
    \/ \E w \in Workers : ReqTimeout(w)
    \/ \E w \in Workers : ReqCleanup(w)
    \/ ClockTick

InitRequest ==
    /\ scenario = "request"
    /\ InitRequestVars
    /\ req_kind \in RequestKinds
    /\ IdleStressVars
    /\ IdleServerVars
    /\ IdleFnVars
    /\ IdleMatrixVars
    /\ IdleLibVars
    /\ IdleSuiteVars
    /\ IdlePoolVars
    /\ IdleComboVars
    /\ IdleCwdVars
    /\ IdlePipeVars
    /\ now = 0

SpecRequest == InitRequest /\ [][NextRequest]_vars

\* quick_benchmark.py: calls of measure_latency, one after the other
InitLatency ==
    /\ scenario = "latency"
    /\ InitRequestVars
    /\ req_kind = "measure_latency"
    /\ IdleStressVars
    /\ IdleServerVars
    /\ IdleFnVars
    /\ IdleMatrixVars
    /\ IdleLibVars
    /\ IdleSuiteVars
    /\ IdlePoolVars
    /\ IdleComboVars
    /\ IdleCwdVars
    /\ IdlePipeVars
    /\ now = 0

SpecLatency == InitLatency /\ [][NextRequest]_vars

----------------------------------------------------------------------------
(* The verdict of a stress run, over the counters the run can end with *)

\* what a call of a function leaves alone
FnFrame == UNCHANGED <<scenario, stressVars, serverVars, requestVars,
                          matrixVars, libVars, suiteVars, poolVars,
                comboVars, cwdVars, pipeVars>>

\* the counters at the deadline: total_requests and successful_requests
VerdictInputs ==
    {<<successful, total>> \in (0..MaxTotal) \X (0..MaxTotal) :
         successful <= total}

\* lines 678-686: the status of the TestResult, from the counters
VerdictCall ==
    /\ scenario = "verdict"
    /\ fn_out = << >>
    /\ fn_out' = <<Verdict(fn_in[1], fn_in[2])>>
    /\ UNCHANGED fn_in
    /\ FnFrame

NextVerdict == VerdictCall

InitVerdict ==
    /\ scenario = "verdict"
    /\ fn_in \in VerdictInputs
    /\ fn_out = << >>
    /\ IdleStressVars
    /\ IdleServerVars
    /\ IdleRequestVars
    /\ IdleMatrixVars
    /\ IdleLibVars
    /\ IdleSuiteVars
    /\ IdlePoolVars
    /\ IdleComboVars
    /\ IdleCwdVars
    /\ IdlePipeVars
    /\ now = 0

SpecVerdict == InitVerdict /\ [][NextVerdict]_vars

----------------------------------------------------------------------------
(* One request of the stress run, from the sender's run to the verdict on  *)
(* it, over every catalog pattern and every sender run                     *)

\* a catalog pattern, by its position, and what the sender's run ended in
EvaluateInputs == (1..Len(test_patterns)) \X SenderRuns

\* lines 621 and 627: the sender is run and its response evaluated
EvaluateCall ==
    /\ scenario = "evaluate"
    /\ fn_out = << >>
    /\ fn_out' = <<_evaluate_pattern_response(test_patterns[fn_in[1]],
                       _run_sender_with_enhanced_pattern(fn_in[2]))>>
    /\ UNCHANGED fn_in
    /\ FnFrame

NextEvaluate == EvaluateCall

InitEvaluate ==
    /\ scenario = "evaluate"
    /\ fn_in \in EvaluateInputs
    /\ fn_out = << >>
    /\ IdleStressVars
    /\ IdleServerVars
    /\ IdleRequestVars
    /\ IdleMatrixVars
    /\ IdleLibVars
    /\ IdleSuiteVars
    /\ IdlePoolVars
    /\ IdleComboVars
    /\ IdleCwdVars
    /\ IdlePipeVars
    /\ now = 0

SpecEvaluate == InitEvaluate /\ [][NextEvaluate]_vars

----------------------------------------------------------------------------
(* The exit status of run_tests.py, over the outcomes a run can record *)

\* TestStatus
TestStatus == {"PASS", "FAIL", "SKIP", "ERROR", "TIMEOUT"}

\* len([r for r in self.results if r.status == status])
CountStatus(rs, status) == Cardinality({i \in 1..Len(rs) : rs[i] = status})

\* generate_report, lines 1005-1011: the summary of the recorded outcomes
generate_report(rs) ==
    [total_tests |-> Len(rs),
     passed |-> CountStatus(rs, "PASS"),
     failed |-> CountStatus(rs, "FAIL"),
     skipped |-> CountStatus(rs, "SKIP"),
     errors |-> CountStatus(rs, "ERROR"),
     timeouts |-> CountStatus(rs, "TIMEOUT")]

\* main, line 1258: sys.exit(0 if summary['failed'] == 0 else 1)
main_exit_code(summary) == IF summary.failed = 0 THEN 0 ELSE 1

\* the outcome lists a run can end with
OutcomeLists ==
    UNION {[1..n -> TestStatus] : n \in 0..MaxOutcomes}

\* lines 1214-1258: the report of the run and the exit
ExitCall ==
    /\ scenario = "exit"
    /\ fn_out = << >>
    /\ fn_out' = <<main_exit_code(generate_report(fn_in))>>
    /\ UNCHANGED fn_in
    /\ FnFrame

NextExit == ExitCall

InitExit ==
    /\ scenario = "exit"
    /\ fn_in \in OutcomeLists
    /\ fn_out = << >>
    /\ IdleStressVars
    /\ IdleServerVars
    /\ IdleRequestVars
    /\ IdleMatrixVars
    /\ IdleLibVars
    /\ IdleSuiteVars
    /\ IdlePoolVars
    /\ IdleComboVars
    /\ IdleCwdVars
    /\ IdlePipeVars
    /\ now = 0

SpecExit == InitExit /\ [][NextExit]_vars

----------------------------------------------------------------------------
(* UnifiedTestSuite.run_cross_platform_tests: the matrix of run_tests.py *)

\* what a step of the matrix run leaves alone
MatrixFrame ==
    UNCHANGED <<scenario, stressVars, serverVars, requestVars, fnVars, libVars,
                suiteVars, poolVars,
                comboVars, cwdVars, pipeVars>>

\* the TestResult of a pair, reduced to its pair and status
PairResult(listener_name, sender_name, status) ==
    [listener |-> listener_name, sender |-> sender_name, status |-> status]

\* lines 394-398: fewer than two available implementations end the run
MatrixBegin ==
    /\ mx_pc = "begin"
    /\ mx_pc' = IF Len(available_impls) < 2 THEN "returned" ELSE "pair"
    /\ UNCHANGED <<listener_idx, sender_idx, mx_results>>
    /\ MatrixFrame

\* the for loops of lines 405-406: the pair after this one
NextPair ==
    IF sender_idx < Len(available_impls)
    THEN /\ sender_idx' = sender_idx + 1
         /\ UNCHANGED listener_idx
    ELSE /\ sender_idx' = 1
         /\ listener_idx' = listener_idx + 1

\* lines 407-454: one pair.  _start_listener returns None (ERROR), or the
\* sender runs after the sleep and its response decides PASS or FAIL
MatrixPair ==
    /\ mx_pc = "pair"
    /\ listener_idx <= Len(available_impls)
    /\ \E status \in {"ERROR", "PASS", "FAIL"} :
         mx_results' = Append(mx_results,
             PairResult(available_impls[listener_idx],
                        available_impls[sender_idx], status))
    /\ NextPair
    /\ UNCHANGED mx_pc
    /\ MatrixFrame

\* lines 456-457: the loops are over
MatrixReturn ==
    /\ mx_pc = "pair"
    /\ listener_idx > Len(available_impls)
    /\ mx_pc' = "returned"
    /\ UNCHANGED <<listener_idx, sender_idx, mx_results>>
    /\ MatrixFrame

NextMatrix ==
    \/ MatrixBegin
    \/ MatrixPair
    \/ MatrixReturn

InitMatrix ==
    /\ scenario = "matrix"
    /\ build_successful \in [Impls -> BOOLEAN]
    /\ st_pc = "idle"
    /\ server_idx = 1
    /\ client_idx = 1
    /\ server_process = "None"
    /\ listener = "none"
    /\ end_time = 0
    /\ pattern_index = 0
    /\ total_requests = 0
    /\ successful_requests = 0
    /\ failed_requests = 0
    /\ pattern_stats = NoStats
    /\ client_stats = NoStats
    /\ error_types = NoStats
    /\ pattern = NoPattern
    /\ response = NoResponse
    /\ results = << >>
    /\ now = 0
    /\ mx_pc = "begin"
    /\ listener_idx = 1
    /\ sender_idx = 1
    /\ mx_results = << >>
    /\ IdleServerVars
    /\ IdleRequestVars
    /\ fn_in = << >>
    /\ fn_out = << >>
    /\ IdleLibVars
    /\ IdleSuiteVars
    /\ IdlePoolVars
    /\ IdleComboVars
    /\ IdleCwdVars
    /\ IdlePipeVars

SpecMatrix == InitMatrix /\ [][NextMatrix]_vars

----------------------------------------------------------------------------
(* LibraryTestOrchestrator.run_cross_platform_matrix and                   *)
(* test_critical_combinations.  The implementation list is cut to three.   *)

\* line 337: implementations
implementations == <<"go", "rust", "swift">>

\* what a step of the library matrix leaves alone
LibFrame ==
    UNCHANGED <<scenario, stressVars, serverVars, requestVars, fnVars,
                matrixVars, suiteVars, poolVars,
                comboVars, cwdVars, pipeVars>>

\* how run_cross_platform_test can end: success with every test passed,
\* success with a test not passed, (False, details) as after a failed server
\* start, or an exception raised out of it
PairEnds == {"passed", "test_failed", "failed", "raised"}

\* the TestOutcome of a pair, reduced to its pair and result
TestOutcome(client, server, result) ==
    [client |-> client, server |-> server, result |-> result]

\* lines 350-373 and 388-413: the result for a pair whose test returned
OutcomeOf(success, all_passed) ==
    IF success /\ all_passed THEN "PASS" ELSE "FAIL"

\* CriticalRaise that records the exception as a failed combination
CriticalRaise_Recorded(client, server) ==
    /\ critical_results' = Append(critical_results,
           [client |-> client, server |-> server, success |-> FALSE,
            all_passed |-> FALSE])
    /\ UNCHANGED lm_pc

\* cross_platform_tests.py lines 1239-1259: the try of a critical combination
\* catches TimeoutError only; any other exception leaves
\* test_critical_combinations, and run_cross_platform_matrix (which catches
\* ImportError only, line 431) with it
CriticalRaise(client, server) ==
    /\ lm_pc' = "escaped"
    /\ UNCHANGED critical_results

\* cross_platform_tests.py lines 1236-1259 and 1261-1283: one critical
\* combination, under the alarm
CriticalPair(pc, client, server, next_pc) ==
    /\ lm_pc = pc
    /\ \E end \in PairEnds \cup {"alarm"} :
         IF end = "raised"
         THEN CriticalRaise(client, server)
         ELSE /\ critical_results' = Append(critical_results,
                     [client |-> client, server |-> server,
                      success |-> end \in {"passed", "test_failed"},
                      all_passed |-> end = "passed"])
              /\ lm_pc' = next_pc
    /\ UNCHANGED <<lm_client, lm_server, lm_results>>
    /\ LibFrame

LibCritical1 == CriticalPair("critical1", "go", "rust", "critical2")

LibCritical2 == CriticalPair("critical2", "rust", "go", "convert")

\* lines 345-373: the critical results become TestOutcomes
LibConvert ==
    /\ lm_pc = "convert"
    /\ lm_results' =
           [i \in 1..Len(critical_results) |->
               TestOutcome(critical_results[i].client,
                           critical_results[i].server,
                           OutcomeOf(critical_results[i].success,
                                     critical_results[i].all_passed))]
    /\ lm_pc' = "remaining"
    /\ UNCHANGED <<critical_results, lm_client, lm_server>>
    /\ LibFrame

\* line 377: tested_combos
tested_combos ==
    {<<critical_results[i].client, critical_results[i].server>> :
         i \in 1..Len(critical_results)}

\* the for loops of lines 379-380: the combination after this one
NextCombo ==
    IF lm_server < Len(implementations)
    THEN /\ lm_server' = lm_server + 1
         /\ UNCHANGED lm_client
    ELSE /\ lm_server' = 1
         /\ lm_client' = lm_client + 1

\* lines 379-421: one remaining combination, skipped when already tested
LibRemaining ==
    /\ lm_pc = "remaining"
    /\ lm_client <= Len(implementations)
    /\ LET client == implementations[lm_client]
           server == implementations[lm_server]
       IN  IF <<client, server>> \in tested_combos
           THEN UNCHANGED lm_results
           ELSE \E end \in PairEnds :
                  lm_results' = Append(lm_results,
                      TestOutcome(client, server,
                          IF end = "raised" THEN "ERROR"
                          ELSE OutcomeOf(end \in {"passed", "test_failed"},
                                         end = "passed")))
    /\ NextCombo
    /\ UNCHANGED <<lm_pc, critical_results>>
    /\ LibFrame

\* lines 423-428: the loops are over
LibReturn ==
    /\ lm_pc = "remaining"
    /\ lm_client > Len(implementations)
    /\ lm_pc' = "returned"
    /\ UNCHANGED <<critical_results, lm_client, lm_server, lm_results>>
    /\ LibFrame

NextLib ==
    \/ LibCritical1
    \/ LibCritical2
    \/ LibConvert
    \/ LibRemaining
    \/ LibReturn

InitLib ==
    /\ scenario = "library_matrix"
    /\ lm_pc = "critical1"
    /\ critical_results = << >>
    /\ lm_client = 1
    /\ lm_server = 1
    /\ lm_results = << >>
    /\ IdleStressVars
    /\ IdleServerVars
    /\ IdleRequestVars
    /\ IdleMatrixVars
    /\ IdleSuiteVars
    /\ IdlePoolVars
    /\ IdleComboVars
    /\ IdleCwdVars
    /\ IdlePipeVars
    /\ fn_in = << >>
    /\ fn_out = << >>
    /\ now = 0

SpecLib == InitLib /\ [][NextLib]_vars

----------------------------------------------------------------------------
(* UnifiedTestSuite: the listeners it starts, the interrupt handler and    *)
(* cleanup (tests/run_tests.py)                                            *)

\* what a step of the suite leaves alone
SuiteFrame ==
    UNCHANGED <<scenario, stressVars, serverVars, requestVars, fnVars,
                matrixVars, libVars, poolVars,
                comboVars, cwdVars, pipeVars>>

\* process.poll() is None
Alive(state) == state \in {"alive", "terminating", "stubborn"}

\* the handles in self.running_processes
Registered(list) == {list[i] : i \in DOMAIN list}

\* Reap without the kill of a process that outlives the wait
Reap_NoKill(state) ==
    IF state \in {"alive", "terminating"} THEN "terminated" ELSE state

\* lines 153-160: a live process is sent SIGTERM and waited for; one that
\* is still there after the wait is killed; a dead one is left alone
Reap(state) ==
    IF state \in {"alive", "terminating"} THEN "terminated"
    ELSE IF state = "stubborn" THEN "killed"
    ELSE state

\* lines 152-160: the loop over self.running_processes
TerminateAll(processes, list) ==
    [p \in Procs |->
        IF p \in Registered(list)
        THEN [processes[p] EXCEPT !.state = Reap(@)]
        ELSE processes[p]]

\* lines 163-167: unlink(missing_ok=True) of every descriptor's socket path
RemoveSockets(files) == files \ Impls

\* lines 147-167: cleanup, as a function of the processes and the files
CleanupOf(s) ==
    [children |-> TerminateAll(s.children, running_processes),
     socket_files |-> RemoveSockets(s.socket_files)]

\* lines 147-167
cleanup ==
    LET after == CleanupOf([children |-> children, socket_files |-> socket_files])
    IN  /\ children' = after.children
        /\ socket_files' = after.socket_files
        /\ cleanups' = cleanups + 1

\* the first handle Popen has not handed out yet
FreeProcs == {p \in Procs : children[p].state = "none"}

\* lines 752-754: if Path(impl.socket_path).exists(): unlink()
RemoveExisting(files, impl) == files \ {impl}

\* lines 751-776 and 783-785: the socket file at the path is removed and the
\* listener spawned; when Popen raises, None is returned
StartListenerPopen ==
    /\ su_pc = "run"
    /\ held = 0
    /\ FreeProcs # {}
    /\ \E impl \in Impls, outcome \in {"raised", "alive", "stubborn"} :
         LET p == CHOOSE q \in FreeProcs : \A r \in FreeProcs : q <= r
         IN  /\ socket_files' = RemoveExisting(socket_files, impl)
             /\ IF outcome = "raised"
                THEN UNCHANGED <<su_pc, children, pending>>
                ELSE /\ children' = [children EXCEPT
                                      ![p] = [impl |-> impl, state |-> outcome]]
                     /\ pending' = p
                     /\ su_pc' = "registering"
    /\ UNCHANGED <<running_processes, held, cleanups>>
    /\ SuiteFrame

\* lines 778-781: the handle is appended to self.running_processes
StartListenerAppend ==
    /\ su_pc = "registering"
    /\ running_processes' = Append(running_processes, pending)
    /\ held' = pending
    /\ pending' = 0
    /\ su_pc' = "run"
    /\ UNCHANGED <<children, socket_files, cleanups>>
    /\ SuiteFrame

\* a live listener binds its socket, creating the file
SuiteListenerBind ==
    /\ \E p \in Procs :
         /\ Alive(children[p].state)
         /\ children[p].impl \notin socket_files
         /\ socket_files' = socket_files \cup {children[p].impl}
    /\ UNCHANGED <<su_pc, running_processes, children, pending, held, cleanups>>
    /\ SuiteFrame

\* a listener exits, by itself or on the SIGTERM it was sent, and unlinks
\* its socket path on the way out or leaves the file where it is
SuiteListenerExit ==
    /\ \E p \in Procs :
         /\ children[p].state \in {"alive", "terminating"}
         /\ children' = [children EXCEPT
                ![p].state = IF @ = "alive" THEN "exited" ELSE "terminated"]
         /\ \/ UNCHANGED socket_files
            \/ socket_files' = socket_files \ {children[p].impl}
    /\ UNCHANGED <<su_pc, running_processes, pending, held, cleanups>>
    /\ SuiteFrame

\* lines 432 and 675: listener_process.terminate(): the test sends SIGTERM
\* to the listener it started and goes on without waiting for it to exit
TestTerminates ==
    /\ su_pc = "run"
    /\ held # 0
    /\ children' = [children EXCEPT
           ![held].state = IF @ = "alive" THEN "terminating" ELSE @]
    /\ held' = 0
    /\ UNCHANGED <<su_pc, running_processes, pending, socket_files, cleanups>>
    /\ SuiteFrame

\* lines 142-145: SIGINT or SIGTERM, between any two statements of the main
\* thread: cleanup, then sys.exit(130)
Interrupt ==
    /\ su_pc \in {"run", "registering", "finished"}
    /\ cleanup
    /\ su_pc' = IF su_pc = "finished" THEN "exited" ELSE "unwinding"
    /\ UNCHANGED <<running_processes, pending, held>>
    /\ SuiteFrame

\* lines 207-208: the finally block of run_all_tests, the run being over
RunEnds ==
    /\ su_pc = "run"
    /\ cleanup
    /\ su_pc' = "finished"
    /\ UNCHANGED <<running_processes, pending, held>>
    /\ SuiteFrame

\* lines 207-208: the finally block, SystemExit unwinding through it
Unwind ==
    /\ su_pc = "unwinding"
    /\ cleanup
    /\ su_pc' = "exited"
    /\ UNCHANGED <<running_processes, pending, held>>
    /\ SuiteFrame

NextSuite ==
    \/ StartListenerPopen
    \/ StartListenerAppend
    \/ SuiteListenerBind
    \/ SuiteListenerExit
    \/ TestTerminates
    \/ Interrupt
    \/ RunEnds
    \/ Unwind

InitSuite ==
    /\ scenario = "suite"
    /\ su_pc = "run"
    /\ running_processes = << >>
    /\ children = [p \in Procs |-> NoProcess]
    /\ pending = 0
    /\ held = 0
    /\ socket_files \in SUBSET Impls      \* files left by an earlier run
    /\ cleanups = 0
    /\ IdleStressVars
    /\ IdleServerVars
    /\ IdleRequestVars
    /\ IdleFnVars
    /\ IdleMatrixVars
    /\ IdleLibVars
    /\ IdlePoolVars
    /\ IdleComboVars
    /\ IdleCwdVars
    /\ IdlePipeVars
    /\ now = 0

SpecSuite == InitSuite /\ [][NextSuite]_vars

----------------------------------------------------------------------------
(* The worker pools of throughput_benchmark and concurrent_benchmark       *)
(* (tests/python/performance_benchmark.py, comprehensive_benchmark.py)     *)

\* what a step of a pool leaves alone
PoolFrame ==
    UNCHANGED <<scenario, stressVars, serverVars, requestVars, fnVars,
                matrixVars, libVars, suiteVars,
                comboVars, cwdVars, pipeVars>>

\* AddResult that stores the worker's count in place of adding it
AddResult_Overwrite(total, count) == count

\* lines 240-241: total_requests += requests
AddResult(total, count) == total + count

\* lines 234-235: the next client_worker is submitted and starts to run
PoolSubmit ==
    /\ pool_pc = "submit"
    /\ \E w \in Threads :
         /\ w_pc[w] = "idle"
         /\ \A v \in Threads : v < w => w_pc[v] # "idle"
         /\ w_pc' = [w_pc EXCEPT ![w] = "loop"]
         /\ pool_pc' = IF \A v \in Threads : v > w => FALSE
                       THEN "collect" ELSE "submit"
    /\ UNCHANGED <<pool_kind, deadline, w_requests, w_failures, w_begun,
                   w_done, collected, pool_requests, pool_failures>>
    /\ PoolFrame

\* lines 221 and 286: the loop condition of client_worker
WorkerGoesOn(w) ==
    IF pool_kind = "throughput_benchmark"
    THEN ~deadline
    ELSE w_requests[w] < RequestsPerClient

\* lines 221-222 and 286-287: the worker begins a send_message, or leaves
\* its loop and returns its counts
WorkerLoop(w) ==
    /\ w_pc[w] = "loop"
    /\ IF WorkerGoesOn(w)
       THEN /\ w_begun[w] < RequestsPerClient
            /\ w_begun' = [w_begun EXCEPT ![w] = @ + 1]
            /\ w_pc' = [w_pc EXCEPT ![w] = "sending"]
       ELSE /\ w_pc' = [w_pc EXCEPT ![w] = "returned"]
            /\ UNCHANGED w_begun
    /\ UNCHANGED <<pool_kind, pool_pc, deadline, w_requests, w_failures,
                   w_done, collected, pool_requests, pool_failures>>
    /\ PoolFrame

\* lines 222-226 and 287-293: send_message has returned; the worker counts
\* the request, and the failure if it was one
WorkerCounts(w) ==
    /\ w_pc[w] = "sending"
    /\ \E failed \in BOOLEAN :
         w_failures' = [w_failures EXCEPT ![w] = @ + (IF failed THEN 1 ELSE 0)]
    /\ w_requests' = [w_requests EXCEPT ![w] = @ + 1]
    /\ w_done' = [w_done EXCEPT ![w] = @ + 1]
    /\ w_pc' = [w_pc EXCEPT ![w] = "loop"]
    /\ UNCHANGED <<pool_kind, pool_pc, deadline, w_begun, collected,
                   pool_requests, pool_failures>>
    /\ PoolFrame

\* line 221: time.perf_counter() reaches end_time
PoolDeadline ==
    /\ pool_kind = "throughput_benchmark"
    /\ ~deadline
    /\ deadline' = TRUE
    /\ UNCHANGED <<pool_kind, pool_pc, w_pc, w_requests, w_failures, w_begun,
                   w_done, collected, pool_requests, pool_failures>>
    /\ PoolFrame

\* lines 237-241 and 310-313: as_completed yields a finished future and its
\* result is added to the totals
PoolCollect ==
    /\ pool_pc = "collect"
    /\ \E w \in Threads \ collected :
         /\ w_pc[w] = "returned"
         /\ pool_requests' = AddResult(pool_requests, w_requests[w])
         /\ pool_failures' = AddResult(pool_failures, w_failures[w])
         /\ collected' = collected \cup {w}
    /\ UNCHANGED <<pool_kind, pool_pc, deadline, w_pc, w_requests, w_failures,
                   w_begun, w_done>>
    /\ PoolFrame

\* lines 246-266 and 315-349: every future was yielded; the totals are final
PoolReturn ==
    /\ pool_pc = "collect"
    /\ collected = Threads
    /\ pool_pc' = "returned"
    /\ UNCHANGED <<pool_kind, deadline, w_pc, w_requests, w_failures, w_begun,
                   w_done, collected, pool_requests, pool_failures>>
    /\ PoolFrame

NextPool ==
    \/ PoolSubmit
    \/ \E w \in Threads : WorkerLoop(w)
    \/ \E w \in Threads : WorkerCounts(w)
    \/ PoolDeadline
    \/ PoolCollect
    \/ PoolReturn

InitPool ==
    /\ scenario = "pool"
    /\ pool_kind \in {"throughput_benchmark", "concurrent_benchmark"}
    /\ pool_pc = "submit"
    /\ deadline = FALSE
    /\ w_pc = [w \in Threads |-> "idle"]
    /\ w_requests = [w \in Threads |-> 0]
    /\ w_failures = [w \in Threads |-> 0]
    /\ w_begun = [w \in Threads |-> 0]
    /\ w_done = [w \in Threads |-> 0]
    /\ collected = {}
    /\ pool_requests = 0
    /\ pool_failures = 0
    /\ IdleComboVars
    /\ IdleCwdVars
    /\ IdlePipeVars
    /\ IdleStressVars
    /\ IdleServerVars
    /\ IdleRequestVars
    /\ IdleFnVars
    /\ IdleMatrixVars
    /\ IdleLibVars
    /\ IdleSuiteVars
    /\ now = 0

SpecPool == InitPool /\ [][NextPool]_vars

----------------------------------------------------------------------------
(* The whole harness: one of its parts, chosen at the start *)

----------------------------------------------------------------------------
(* TestOrchestrator.run_cross_platform_tests and start_server              *)
(* (tests/python/test_orchestrator.py).  The result list is left out.      *)

\* what a step of the combination loop leaves alone
ComboFrame ==
    UNCHANGED <<scenario, stressVars, serverVars, requestVars, fnVars,
                matrixVars, libVars, suiteVars, poolVars, cwdVars, pipeVars>>

\* socket_path of line 426 depends on the server only
server_impl == all_combinations[combo].server

\* the owner of a socket file left behind by an earlier run
Stale == Len(all_combinations) + 1

\* a server process that runs; a stubborn one ignores SIGTERM
Running == {"starting", "listening", "starting_stubborn", "listening_stubborn"}

\* proc.terminate() of line 301, with no wait after it
Sigterm(state) ==
    IF state \in {"starting", "listening"} THEN "terminated" ELSE state

\* WaitOrKill without the kill of the TimeoutExpired handler
WaitOrKill_NoKill(state) == Sigterm(state)

\* lines 451-454: terminate, wait five seconds, kill on TimeoutExpired
WaitOrKill(state) ==
    IF state \in {"starting_stubborn", "listening_stubborn"}
    THEN "killed" ELSE Sigterm(state)

\* line 419: the next combination of the for loop
XpFor ==
    /\ xp_pc = "for"
    /\ combo <= Len(all_combinations)
    /\ xp_pc' = "start_server"
    /\ UNCHANGED <<combo, server_procs, xp_socket, server_proc, xp_polls,
                   served, raised>>
    /\ ComboFrame

\* line 464: the combinations are over
XpReturn ==
    /\ xp_pc = "for"
    /\ combo > Len(all_combinations)
    /\ xp_pc' = "returned"
    /\ UNCHANGED <<combo, server_procs, xp_socket, server_proc, xp_polls,
                   served, raised>>
    /\ ComboFrame

\* lines 266-270, start_server: any existing socket file is removed
StartServerUnlink ==
    /\ xp_pc = "start_server"
    /\ xp_socket' = [xp_socket EXCEPT ![server_impl] = 0]
    /\ xp_pc' = "popen"
    /\ UNCHANGED <<combo, server_procs, server_proc, xp_polls, served, raised>>
    /\ ComboFrame

\* lines 273-282 and 305-307: Popen gives a process, or raises and
\* start_server returns None
StartServerPopen ==
    /\ xp_pc = "popen"
    /\ \E outcome \in {"starting", "starting_stubborn", "raise"} :
         IF outcome = "raise"
         THEN /\ server_proc' = 0
              /\ xp_pc' = "not_started"
              /\ UNCHANGED <<server_procs, xp_polls>>
         ELSE /\ server_procs' = [server_procs EXCEPT ![combo] = outcome]
              /\ xp_polls' = 0
              /\ xp_pc' = "wait"
              /\ UNCHANGED server_proc
    /\ UNCHANGED <<combo, xp_socket, served, raised>>
    /\ ComboFrame

\* lines 285-303: one iteration of the wait loop, or its end: the socket
\* file exists and the process is returned, the process exited and None is
\* returned, or the loop is over, the process is sent SIGTERM and None is
\* returned
StartServerWait ==
    /\ xp_pc = "wait"
    /\ IF xp_polls < MaxWait
       THEN IF xp_socket[server_impl] # 0
            THEN /\ server_proc' = combo
                 /\ served' = served \cup {combo}
                 /\ xp_pc' = "try"
                 /\ UNCHANGED <<server_procs, xp_polls>>
            ELSE IF server_procs[combo] = "exited"
            THEN /\ server_proc' = 0
                 /\ xp_pc' = "not_started"
                 /\ UNCHANGED <<server_procs, xp_polls, served>>
            ELSE /\ xp_polls' = xp_polls + 1
                 /\ UNCHANGED <<server_procs, server_proc, served, xp_pc>>
       ELSE /\ server_procs' =
                  [server_procs EXCEPT ![combo] = Sigterm(server_procs[combo])]
            /\ server_proc' = 0
            /\ xp_pc' = "not_started"
            /\ UNCHANGED <<xp_polls, served>>
    /\ UNCHANGED <<combo, xp_socket, raised>>
    /\ ComboFrame

\* a server process binds its socket: the file is created, or the path is
\* taken and the process exits
ServerBinds ==
    /\ \E c \in Combos :
         /\ server_procs[c] \in {"starting", "starting_stubborn"}
         /\ IF xp_socket[all_combinations[c].server] = 0
            THEN /\ xp_socket' =
                       [xp_socket EXCEPT ![all_combinations[c].server] = c]
                 /\ server_procs' =
                       [server_procs EXCEPT ![c] =
                           IF server_procs[c] = "starting"
                           THEN "listening" ELSE "listening_stubborn"]
            ELSE /\ server_procs' = [server_procs EXCEPT ![c] = "exited"]
                 /\ UNCHANGED xp_socket
    /\ UNCHANGED <<xp_pc, combo, server_proc, xp_polls, served, raised>>
    /\ ComboFrame

\* a server process exits of its own accord and leaves its socket file
ServerExits ==
    /\ \E c \in Combos :
         /\ server_procs[c] \in {"starting", "listening"}
         /\ server_procs' = [server_procs EXCEPT ![c] = "exited"]
    /\ UNCHANGED <<xp_pc, combo, xp_socket, server_proc, xp_polls, served,
                   raised>>
    /\ ComboFrame

\* lines 428-436: start_server returned None, on to the next combination
XpNotStarted ==
    /\ xp_pc = "not_started"
    /\ combo' = combo + 1
    /\ xp_pc' = "for"
    /\ UNCHANGED <<server_procs, xp_socket, server_proc, xp_polls, served,
                   raised>>
    /\ ComboFrame

\* lines 438-447: the client tests of the combination return, or one raises
XpClientTests ==
    /\ xp_pc = "try"
    /\ raised' \in BOOLEAN
    /\ xp_pc' = "finally"
    /\ UNCHANGED <<combo, server_procs, xp_socket, server_proc, xp_polls,
                   served>>
    /\ ComboFrame

\* lines 449-456: the finally clause stops the server
XpFinallyStop ==
    /\ xp_pc = "finally"
    /\ server_procs' =
           [server_procs EXCEPT ![server_proc] = WaitOrKill(server_procs[server_proc])]
    /\ xp_pc' = "finally_unlink"
    /\ UNCHANGED <<combo, xp_socket, server_proc, xp_polls, served, raised>>
    /\ ComboFrame

\* lines 458-462: the finally clause removes the socket file; the exception
\* of a client test goes on to the caller
XpFinallyUnlink ==
    /\ xp_pc = "finally_unlink"
    /\ xp_socket' = [xp_socket EXCEPT ![server_impl] = 0]
    /\ IF raised
       THEN xp_pc' = "raised" /\ UNCHANGED combo
       ELSE xp_pc' = "for" /\ combo' = combo + 1
    /\ UNCHANGED <<server_procs, server_proc, xp_polls, served, raised>>
    /\ ComboFrame

NextCombos ==
    \/ XpFor
    \/ XpReturn
    \/ StartServerUnlink
    \/ StartServerPopen
    \/ StartServerWait
    \/ ServerBinds
    \/ ServerExits
    \/ XpNotStarted
    \/ XpClientTests
    \/ XpFinallyStop
    \/ XpFinallyUnlink

InitCombos ==
    /\ scenario = "combinations"
    /\ xp_pc = "for"
    /\ combo = 1
    /\ server_procs = [c \in Combos |-> "notspawned"]
    /\ xp_socket \in [Impls -> {0, Stale}]
    /\ server_proc = 0
    /\ xp_polls = 0
    /\ served = {}
    /\ raised = FALSE
    /\ IdleStressVars
    /\ IdleServerVars
    /\ IdleRequestVars
    /\ IdleFnVars
    /\ IdleMatrixVars
    /\ IdleLibVars
    /\ IdleSuiteVars
    /\ IdlePoolVars
    /\ IdleCwdVars
    /\ IdlePipeVars
    /\ now = 0

SpecCombos == InitCombos /\ [][NextCombos]_vars

----------------------------------------------------------------------------
(* The working directory in ComprehensiveTestSuite._start_listener,         *)
(* _run_sender and _run_sender_with_command                                 *)
(* (tests/python/comprehensive_test_suite.py).  impl.directory is taken to  *)
(* resolve from every directory.                                            *)

\* what a step of a helper leaves alone
CwdFrame ==
    UNCHANGED <<scenario, stressVars, serverVars, requestVars, fnVars,
                matrixVars, libVars, suiteVars, poolVars, comboVars, pipeVars>>

\* the helpers that change the working directory
Helpers == {"_start_listener", "_run_sender", "_run_sender_with_command"}

\* how the call between the two chdir calls can end: Popen of _start_listener
\* returns or raises, subprocess.run of the senders returns, raises
\* TimeoutExpired after 30 seconds, or raises another exception
CallOutcomes(fn) ==
    IF fn = "_start_listener" THEN {"returns", "raises"}
    ELSE {"returns", "TimeoutExpired", "raises"}

\* lines 506, 550, 719: original_cwd = os.getcwd()
Getcwd(t) ==
    /\ cw_pc[t] = "call"
    /\ original_cwd' = [original_cwd EXCEPT ![t] = cwd]
    /\ cw_pc' = [cw_pc EXCEPT ![t] = "chdir"]
    /\ UNCHANGED <<cwd, cw_fn>>
    /\ CwdFrame

\* lines 507, 551, 720: os.chdir(impl.directory)
Chdir(t) ==
    /\ cw_pc[t] = "chdir"
    /\ cwd' = "impl.directory"
    /\ cw_pc' = [cw_pc EXCEPT ![t] = "run"]
    /\ UNCHANGED <<cw_fn, original_cwd>>
    /\ CwdFrame

\* lines 510-516, 554-560, 723-729, and the except clauses of lines 525-527,
\* 572-588 and 741-756: the call returns, or raises and the helper returns
\* from its except clause
RunProcess(t) ==
    /\ cw_pc[t] = "run"
    /\ \E outcome \in CallOutcomes(cw_fn) :
         cw_pc' = [cw_pc EXCEPT ![t] =
                      IF outcome = "returns" THEN "restore" ELSE "returned"]
    /\ UNCHANGED <<cwd, cw_fn, original_cwd>>
    /\ CwdFrame

\* lines 518, 562, 731: os.chdir(original_cwd), and the return
Restore(t) ==
    /\ cw_pc[t] = "restore"
    /\ cwd' = original_cwd[t]
    /\ cw_pc' = [cw_pc EXCEPT ![t] = "returned"]
    /\ UNCHANGED <<cw_fn, original_cwd>>
    /\ CwdFrame

\* the caller calls the helper again
CallAgain(t) ==
    /\ cw_pc[t] = "returned"
    /\ cwd = "tests"
    /\ cw_pc' = [cw_pc EXCEPT ![t] = "call"]
    /\ UNCHANGED <<cwd, cw_fn, original_cwd>>
    /\ CwdFrame

NextCwd ==
    \E t \in Threads :
        \/ Getcwd(t)
        \/ Chdir(t)
        \/ RunProcess(t)
        \/ Restore(t)
        \/ CallAgain(t)

\* one call of a helper by the main thread, or, for _run_sender_with_command,
\* calls by the workers of the pool of _test_concurrent_requests (lines
\* 837-849)
InitCwd ==
    /\ scenario = "cwd"
    /\ cwd = "tests"
    /\ cw_fn \in Helpers
    /\ cw_pc \in [Threads -> {"call", "idle"}]
    /\ cw_pc[1] = "call"
    /\ cw_fn # "_run_sender_with_command" => \A t \in Threads \ {1} : cw_pc[t] = "idle"
    /\ original_cwd = [t \in Threads |-> "none"]
    /\ IdleStressVars
    /\ IdleServerVars
    /\ IdleRequestVars
    /\ IdleFnVars
    /\ IdleMatrixVars
    /\ IdleLibVars
    /\ IdleSuiteVars
    /\ IdlePoolVars
    /\ IdleComboVars
    /\ IdlePipeVars
    /\ now = 0

SpecCwd == InitCwd /\ [][NextCwd]_vars

----------------------------------------------------------------------------
(* UnifiedTestSuite.run_all_tests (tests/run_tests.py): the build tests,    *)
(* the unit tests, the matrix and the stress run, in this order.  The       *)
(* stages after the build tests read build_successful and nothing else of   *)
(* one another, so a run of the model has the build tests and at most one   *)
(* stage after them.                                                        *)

\* the stress run without build_successful
stressRun == <<st_pc, server_idx, client_idx, server_process, listener,
               end_time, pattern_index, total_requests, successful_requests,
               failed_requests, pattern_stats, client_stats, error_types,
               pattern, response, results>>

\* the categories a run can be given
CategorySets ==
    {c \in SUBSET {"build", "unit", "cross_platform", "stress"} :
        Cardinality(c \ {"build"}) <= 1}

\* the implementation of the for loops of lines 216 and 285
pl_impl == ImplOrder[pl_idx]

\* lines 216-275: one implementation is built; only a build command that
\* exits with 0 sets build_successful
BuildImpl ==
    /\ pl_pc = "build"
    /\ "build" \in categories
    /\ pl_idx <= Len(ImplOrder)
    /\ \E status \in {"PASS", "FAIL", "TIMEOUT", "ERROR"} :
         /\ build_status' = [build_status EXCEPT ![pl_impl] = status]
         /\ build_successful' =
                [build_successful EXCEPT ![pl_impl] = (@ \/ status = "PASS")]
    /\ pl_idx' = pl_idx + 1
    /\ UNCHANGED <<categories, pl_pc, unit_status, unit_ran>>
    /\ UNCHANGED <<scenario, stressRun, now, serverVars, requestVars, fnVars,
                   matrixVars, libVars, suiteVars, poolVars, comboVars, cwdVars>>

\* lines 175-176 and 277-278: the build tests are over, or not asked for
BuildEnds ==
    /\ pl_pc = "build"
    /\ "build" \notin categories \/ pl_idx > Len(ImplOrder)
    /\ pl_pc' = "unit"
    /\ pl_idx' = 1
    /\ UNCHANGED <<categories, build_status, unit_status, unit_ran>>
    /\ UNCHANGED <<scenario, stressVars, serverVars, requestVars, fnVars,
                   matrixVars, libVars, suiteVars, poolVars, comboVars, cwdVars>>

\* lines 285-384: the unit tests of one implementation are skipped, or
\* their command is run
UnitImpl ==
    /\ pl_pc = "unit"
    /\ "unit" \in categories
    /\ pl_idx <= Len(ImplOrder)
    /\ IF ~build_successful[pl_impl]
       THEN /\ unit_status' = [unit_status EXCEPT ![pl_impl] = "SKIP"]
            /\ UNCHANGED unit_ran
       ELSE /\ \E status \in {"PASS", "FAIL", "TIMEOUT", "ERROR"} :
                 unit_status' = [unit_status EXCEPT ![pl_impl] = status]
            /\ unit_ran' = unit_ran \cup {pl_impl}
    /\ pl_idx' = pl_idx + 1
    /\ UNCHANGED <<categories, pl_pc, build_status>>
    /\ UNCHANGED <<scenario, stressVars, serverVars, requestVars, fnVars,
                   matrixVars, libVars, suiteVars, poolVars, comboVars, cwdVars>>

\* lines 179-180 and 386-387: the unit tests are over, or not asked for
UnitEnds ==
    /\ pl_pc = "unit"
    /\ "unit" \notin categories \/ pl_idx > Len(ImplOrder)
    /\ pl_pc' = "cross_platform"
    /\ pl_idx' = 1
    /\ UNCHANGED <<categories, build_status, unit_status, unit_ran>>
    /\ UNCHANGED <<scenario, stressVars, serverVars, requestVars, fnVars,
                   matrixVars, libVars, suiteVars, poolVars, comboVars, cwdVars>>

\* lines 183-184: run_cross_platform_tests is called, or not asked for
CrossCall ==
    /\ pl_pc = "cross_platform"
    /\ IF "cross_platform" \in categories
       THEN mx_pc' = "begin" /\ pl_pc' = "cross_platform_running"
       ELSE pl_pc' = "stress" /\ UNCHANGED mx_pc
    /\ UNCHANGED <<listener_idx, sender_idx, mx_results>>
    /\ UNCHANGED <<categories, pl_idx, build_status, unit_status, unit_ran>>
    /\ UNCHANGED <<scenario, stressVars, serverVars, requestVars, fnVars,
                   libVars, suiteVars, poolVars, comboVars, cwdVars>>

\* run_cross_platform_tests has returned
CrossReturn ==
    /\ pl_pc = "cross_platform_running"
    /\ mx_pc = "returned"
    /\ pl_pc' = "stress"
    /\ UNCHANGED <<categories, pl_idx, build_status, unit_status, unit_ran>>
    /\ UNCHANGED <<scenario, stressVars, serverVars, requestVars, fnVars,
                   matrixVars, libVars, suiteVars, poolVars, comboVars, cwdVars>>

\* lines 199-200: run_stress_tests is called, or not asked for
StressCall ==
    /\ pl_pc = "stress"
    /\ IF "stress" \in categories
       THEN st_pc' = "begin" /\ pl_pc' = "stress_running"
       ELSE pl_pc' = "report" /\ UNCHANGED st_pc
    /\ UNCHANGED <<build_successful, server_idx, client_idx, server_process,
                   listener, now, end_time, pattern_index, total_requests,
                   successful_requests, failed_requests, pattern_stats,
                   client_stats, error_types, pattern, response, results>>
    /\ UNCHANGED <<categories, pl_idx, build_status, unit_status, unit_ran>>
    /\ UNCHANGED <<scenario, serverVars, requestVars, fnVars, matrixVars,
                   libVars, suiteVars, poolVars, comboVars, cwdVars>>

\* run_stress_tests has returned; lines 203-204, the report
StressReturned ==
    /\ pl_pc = "stress_running"
    /\ st_pc = "returned"
    /\ pl_pc' = "report"
    /\ UNCHANGED <<categories, pl_idx, build_status, unit_status, unit_ran>>
    /\ UNCHANGED <<scenario, stressVars, serverVars, requestVars, fnVars,
                   matrixVars, libVars, suiteVars, poolVars, comboVars, cwdVars>>

NextPipe ==
    \/ BuildImpl
    \/ BuildEnds
    \/ UnitImpl
    \/ UnitEnds
    \/ CrossCall
    \/ CrossReturn
    \/ StressCall
    \/ StressReturned
    \/ NextMatrix
    \/ NextStress

\* line 75: build_successful is False in every new ImplementationInfo
InitPipe ==
    /\ scenario = "pipeline"
    /\ categories \in CategorySets
    /\ pl_pc = "build"
    /\ pl_idx = 1
    /\ build_status = [i \in Impls |-> "none"]
    /\ unit_status = [i \in Impls |-> "none"]
    /\ unit_ran = {}
    /\ IdleStressVars
    /\ IdleServerVars
    /\ IdleRequestVars
    /\ IdleFnVars
    /\ IdleMatrixVars
    /\ IdleLibVars
    /\ IdleSuiteVars
    /\ IdlePoolVars
    /\ IdleComboVars
    /\ IdleCwdVars
    /\ now = 0

SpecPipe == InitPipe /\ [][NextPipe]_vars

Init ==
    \/ InitStress
    \/ InitServer
    \/ InitRequest
    \/ InitVerdict
    \/ InitMatrix
    \/ InitLib
    \/ InitExit
    \/ InitEvaluate
    \/ InitSuite
    \/ InitOrder
    \/ InitPool
    \/ InitLatency
    \/ InitCritical
    \/ InitCombos
    \/ InitDeadline
    \/ InitCwd
    \/ InitPipe

Next ==
    \/ scenario = "stress" /\ NextStress
    \/ scenario = "server" /\ NextServer
    \/ scenario = "request" /\ NextRequest
    \/ scenario = "verdict" /\ NextVerdict
    \/ scenario = "matrix" /\ NextMatrix
    \/ scenario = "library_matrix" /\ NextLib
    \/ scenario = "exit" /\ NextExit
    \/ scenario = "evaluate" /\ NextEvaluate
    \/ scenario = "suite" /\ NextSuite
    \/ scenario = "order" /\ NextStress
    \/ scenario = "pool" /\ NextPool
    \/ scenario = "latency" /\ NextRequest
    \/ scenario = "critical" /\ NextCritical
    \/ scenario = "combinations" /\ NextCombos
    \/ scenario = "deadline" /\ NextStress
    \/ scenario = "cwd" /\ NextCwd
    \/ scenario = "pipeline" /\ NextPipe

Spec == Init /\ [][Next]_vars

----------------------------------------------------------------------------
(* Properties of run_stress_tests *)

\* C1: after every dispatched request, and at the end of the run for each
\* server, total_requests equals the sum of the per-pattern totals and the
\* sum of the per-client totals, whatever the requests' outcomes were.
StressTotalsAgree ==
    /\ total_requests = SumTotals(pattern_stats)
    /\ total_requests = SumTotals(client_stats)

\* C1 witness: the end of a run that saw a success and a failure of every
\* kind, over several pattern types and several clients.
StressTotalsWitness ==
    /\ st_pc = "finish"
    /\ successful_requests >= 1
    /\ {"timeout", "exception", "exit_code", "unknown_error"}
           \subseteq DOMAIN error_types
    /\ Cardinality(DOMAIN pattern_stats) >= 2
    /\ Cardinality(DOMAIN client_stats) >= 2

\* C2: for every pattern-type key and every client key, success + failed
\* never exceeds the key's total, in any state of the dispatch loop.
StressKeyBounded ==
    /\ \A k \in DOMAIN pattern_stats :
         pattern_stats[k].success + pattern_stats[k].failed
             <= pattern_stats[k].total
    /\ \A k \in DOMAIN client_stats :
         client_stats[k].success + client_stats[k].failed
             <= client_stats[k].total

\* C2 witness: between the totals and the outcome of a dispatch, with a
\* key that already holds a success and a failure.
StressKeyWitness ==
    /\ st_pc = "evaluate"
    /\ pattern.type \in DOMAIN pattern_stats
    /\ pattern_stats[pattern.type].success >= 1
    /\ pattern_stats[pattern.type].failed >= 1
    /\ pattern_stats[pattern.type].success + pattern_stats[pattern.type].failed
           < pattern_stats[pattern.type].total
    /\ client_stats[client_name].success + client_stats[client_name].failed
           < client_stats[client_name].total

----------------------------------------------------------------------------
(* Properties of ServerManager and run_cross_platform_test *)

\* the positions inside _wait_for_ready's loop
WaitPcs == {"wait_while", "wait_poll", "wait_readline", "wait_exists"}

\* run_cross_platform_test has returned and nobody has stopped the manager
\* since
PairReturned ==
    /\ ~in_pair
    /\ stops = (IF started = "True" THEN 1 ELSE 0)

\* C3: after a matrix pair run has finished, by success or by failure, no
\* socket file created by that run remains on disk.
PairLeavesNoSocket == PairReturned => ~socket_file

\* C6: when the listener has exited without creating its socket, the
\* readiness poll is over within the configured timeout (the last iteration
\* may add its settle delay).
ReadinessOverOnEarlyExit ==
    (proc = "exited" /\ ~bound /\ sm_pc \in WaitPcs)
        => now - start_time <= ReadyTimeout + SettleDelay

\* C7: after a failed start no listener spawned by that start is alive.
FailedStartLeavesNoListener == started = "False" => proc # "alive"

\* C8: _wait_for_ready is over within its timeout (the last iteration may
\* add its settle delay), whatever the listener does.
WaitForReadyBounded ==
    sm_pc \in WaitPcs => now - start_time <= ReadyTimeout + SettleDelay

\* C9: stop is idempotent: once a call of stop has returned, the manager
\* stays as that call left it (process handle cleared, ready false, socket
\* file absent) through every later call, which never signals or waits.
StopIdempotent ==
    stops >= 1 =>
        /\ sm_process = "None"
        /\ ~ready
        /\ ~socket_file
        /\ sm_pc \in {"returned", "stop", "stop_unlink"}

\* C9 witness: a second call of stop has returned, on a manager whose
\* listener had started and bound its socket.
StopIdempotentWitness ==
    /\ sm_pc = "returned"
    /\ stops = 2
    /\ started = "True"
    /\ bound

\* C10: after stop has returned the listener has exited and the socket file
\* is gone, however the listener ended.
StopPostcondition ==
    (sm_pc = "returned" /\ stops >= 1) => (proc # "alive" /\ ~socket_file)

\* C10 witness: stop has returned after force-killing a listener that did
\* not exit within the wait and had bound its socket.
StopPostconditionWitness ==
    /\ sm_pc = "returned"
    /\ stops = 1
    /\ killed
    /\ bound

----------------------------------------------------------------------------
(* Properties of the request clients *)

\* the positions at which a request holds its reply socket
Holding == {"send", "recv", "cleanup"}

\* C4: the reply socket file of a request is removed on every exit path, so
\* every reply socket file on disk belongs to a request still in progress;
\* once the requests are over none exists.
ReplyFilesOwned ==
    \A f \in reply_files :
        /\ r_pc[f[2]] \in Holding
        /\ r_path[f[2]] = f[1]

\* C4 witness: the workers are back at rest after requests that ended in a
\* receive timeout and in a send failure, an earlier one having completed.
ReplyFilesWitness ==
    /\ \A w \in Threads : r_pc[w] = "idle"
    /\ r_result[1] = "timeout"
    /\ r_result[2] = "send_failed"
    /\ r_seq[1] = 2

\* C5: two requests in flight at the same time are bound to different reply
\* paths; each keeps its own reply socket file until its own cleanup, and
\* receives only the reply to its own request.
InFlightDistinct ==
    /\ \A v, w \in Threads :
         (v # w /\ r_bound[v] /\ r_bound[w]) => r_path[v] # r_path[w]
    /\ \A w \in Threads :
         r_bound[w] => <<r_path[w], w>> \in reply_files
    /\ \A w \in Threads :
         r_got[w] # NoReply => r_got[w] = [from |-> w, seq |-> r_seq[w]]

\* C5 witness: two requests issued by different threads within the same
\* clock instant are both waiting for their replies.
InFlightWitness ==
    /\ r_pc[1] = "recv"
    /\ r_pc[2] = "recv"
    /\ r_bound[1] /\ r_bound[2]
    /\ r_path[1][3] = r_path[2][3]

----------------------------------------------------------------------------
(* Readiness before dispatch in run_stress_tests *)

\* C11: no request is sent to a listener before its readiness has been
\* confirmed: while a stress run has dispatched requests to its listener,
\* that listener is bound to its socket.
RequestsOnlyToReadyListener ==
    (server_process = "running" /\ total_requests > 0)
        => listener = "listening"

\* C12: a server that never becomes ready gets no request and no verdict
\* computed from requests: its run is aborted before the dispatch loop.
NeverReadyServerAborted ==
    listener = "failed"
        => /\ total_requests = 0
           /\ st_pc \notin {"dispatch", "evaluate", "finish"}

----------------------------------------------------------------------------
(* Failures and verdicts in run_stress_tests *)

\* C13: a failed request only accumulates into the statistics and never
\* aborts the run: the dispatch loop is left only at the deadline, and every
\* server handled so far has exactly one TestResult, in order.
StressFailuresAccumulate ==
    /\ st_pc = "finish" => now >= end_time
    /\ st_pc \notin {"idle", "begin"} =>
         /\ Len(results) = server_idx - 1
         /\ \A i \in 1..Len(results) : results[i].name = available_impls[i]

\* C13 witness: the second server's run reaches its deadline after requests
\* that failed by timeout, by exception, by exit code and by predicate.
StressFailuresWitness ==
    /\ st_pc = "finish"
    /\ server_idx = 2
    /\ Len(results) = 1
    /\ {"timeout", "exception", "exit_code", "unknown_error"}
           \subseteq DOMAIN error_types

\* C14: the verdict of a stress run is PASS iff the overall success rate,
\* taken as 0 when no request was dispatched, is at least 95%: PASS exactly
\* when some request was dispatched and at most one in twenty failed.
VerdictIsThreshold ==
    (scenario = "verdict" /\ fn_out # << >>) =>
        LET successful == fn_in[1]
            total == fn_in[2]
            failed == total - successful
        IN  /\ fn_out[1] \in {"PASS", "FAIL"}
            /\ fn_out[1] = "PASS" <=> (total > 0 /\ 20 * failed <= total)

\* C14 witness: a verdict was computed for a run exactly at the threshold,
\* with failures among its requests.
VerdictWitness ==
    /\ scenario = "verdict"
    /\ fn_out = <<"PASS">>
    /\ fn_in = <<38, 40>>

----------------------------------------------------------------------------
(* The matrix runs *)

\* the implementations that built
Available == {i \in Impls : build_successful[i]}

\* C15: the matrix runner attempts every ordered (listener, sender) pair of
\* the available implementations, self-pairs included, and records exactly
\* one outcome per pair, for any number of available implementations.
MatrixCoversEveryPair ==
    mx_pc = "returned" =>
        \A l \in Available, c \in Available :
            Cardinality({i \in 1..Len(mx_results) :
                            /\ mx_results[i].listener = l
                            /\ mx_results[i].sender = c}) = 1

\* C16: in a matrix run a failed listener start, or a client run that fails
\* or raises, for one pair keeps no later pair from being attempted: no
\* error escapes a pair boundary, and when the matrix run is over every
\* combination has an outcome.
PairFailureContained ==
    /\ lm_pc # "escaped"
    /\ lm_pc = "returned" =>
         \A c \in 1..Len(implementations), v \in 1..Len(implementations) :
             \E i \in 1..Len(lm_results) :
                 /\ lm_results[i].client = implementations[c]
                 /\ lm_results[i].server = implementations[v]

----------------------------------------------------------------------------
(* The exit status *)

\* C17: the exit status of a run is success (0) only if no FAIL, ERROR or
\* TIMEOUT outcome was recorded, and nonzero when at least one was.
ExitReflectsOutcomes ==
    (scenario = "exit" /\ fn_out # << >>) =>
        (fn_out[1] = 0 <=>
            \A i \in 1..Len(fn_in) : fn_in[i] \notin {"FAIL", "ERROR", "TIMEOUT"})

----------------------------------------------------------------------------
(* The expectation predicate *)

\* the pattern and the sender run of the call under way
CallPattern == test_patterns[fn_in[1]]

CallRun == fn_in[2]

Evaluated == scenario = "evaluate" /\ fn_out # << >>

\* C18: for a pattern with expect_error=true the predicate returns success
\* iff the round trip itself completed and the reply signals the expected
\* domain fault; in particular it never returns success for a sender that
\* timed out or could not be run at all.
ExpectErrorNeedsRoundTrip ==
    (Evaluated /\ CallPattern.expect_error /\ fn_out[1])
        => CallRun.kind = "completed"

\* the sender ran to completion and reported a reply that was not a failure:
\* exit code 0, some output, and no "Response: Success=false" in it
SenderCompleted(run) ==
    /\ run.kind = "completed"
    /\ run.returncode = 0
    /\ run.stdout # {}
    /\ "Response: Success=false" \notin run.stdout

StructuralCheck(p, stdout) ==
    CASE p.command = "echo" -> p.message = "" \/ "MSG" \in stdout
      [] p.command = "ping" ->
             \/ "pong" \in stdout
             \/ "Response: Success=true" \in stdout
             \/ "Response: Success=false" \in stdout
      [] OTHER -> TRUE

\* C20: for every catalog pattern with expect_reply=true and
\* expect_error=false the predicate returns success only if the round trip
\* succeeded and the reply satisfies the pattern's structural check.
ReplyPatternsChecked ==
    (/\ Evaluated
     /\ CallPattern.expect_reply
     /\ ~CallPattern.expect_error
     /\ fn_out[1])
        => /\ SenderCompleted(CallRun)
           /\ StructuralCheck(CallPattern, CallRun.stdout)

\* C20 witness: an echo request whose sender completed with a reply that
\* lacks the message was evaluated, and was not counted as a success.
ReplyPatternsWitness ==
    /\ Evaluated
    /\ CallPattern.command = "echo"
    /\ CallPattern.message # ""
    /\ ~CallPattern.expect_error
    /\ CallRun.kind = "completed"
    /\ CallRun.stdout = {"Response: Success=true", "pong"}
    /\ fn_out = <<FALSE>>

----------------------------------------------------------------------------
(* What the request functions return to their caller *)

\* the value returned for a request that ended in `result`, having received
\* a reply of kind `reply`: the success flag and the message or payload that
\* comes with it (timings left out)
ReturnOf(kind, result, reply) ==
    CASE kind = "_test_command" ->
             IF result = "ok"
             THEN (IF reply \in {"success", "error"}
                   THEN [success |-> TRUE, detail |-> ""]
                   ELSE [success |-> FALSE,
                         detail |-> "Response missing 'status' field"])
             ELSE IF result = "timeout"
             THEN [success |-> FALSE, detail |-> "Response timeout"]
             ELSE IF result = "parse_error"
             THEN [success |-> FALSE, detail |-> "Invalid JSON response"]
             ELSE [success |-> FALSE, detail |-> "Test error"]
      [] kind = "send_message" ->
             IF result = "ok"
             THEN [success |-> TRUE, detail |-> "response"]
             ELSE [success |-> FALSE, detail |-> "None"]
      [] OTHER ->
             [success |-> result = "ok" /\ reply = "success", detail |-> ""]

\* what worker w's last request returned
Returned(w) == ReturnOf(req_kind, r_result[w], r_reply[w])

\* worker w's request has returned to its caller
Finished(w) == r_pc[w] = "idle" /\ r_result[w] # "none"

\* C21: a request for which no reply arrives within the receive timeout
\* returns a timeout result distinguishable from a transport error and from
\* a parse failure.
TimeoutDistinguishable ==
    \A v \in Threads, w \in Threads :
        (/\ Finished(v) /\ r_result[v] = "timeout"
         /\ Finished(w) /\ r_result[w] \in {"send_failed", "parse_error"})
            => Returned(v) # Returned(w)

\* C22: a request is classified as a protocol success only if the reply
\* carries an explicit success marker; any other well-formed reply is a
\* failure and non-JSON content a parse failure, never a success.
SuccessNeedsMarker ==
    \A w \in Threads :
        (Finished(w) /\ Returned(w).success) => r_reply[w] = "success"

\* C23: a request sent to a socket path that does not exist returns a failed
\* result without blocking on the receive, and leaves no reply socket file.
NoTargetFailsAtOnce ==
    ~target_up =>
        \A w \in Threads :
            /\ r_pc[w] # "recv"
            /\ Finished(w) =>
                 /\ ~Returned(w).success
                 /\ r_result[w] \in {"send_failed", "bind_failed",
                                     "socket_failed"}
                 /\ ~Exists(reply_files, r_path[w])

\* C23 witness: with no socket at the target path both workers have sent
\* their requests, bound and failed in the send, and are back at rest.
NoTargetWitness ==
    /\ scenario = "request"
    /\ ~target_up
    /\ \A w \in Threads : Finished(w) /\ r_result[w] = "send_failed"
    /\ r_seq[1] = 2
    /\ reply_files = {}

\* C24: an interrupt arriving at any point of a run leaves no listener the
\* run has spawned alive: once the handler's cleanup is over, every process
\* Popen has created has exited, was terminated or was killed
InterruptLeavesNoListener ==
    (scenario = "suite" /\ su_pc \in {"unwinding", "exited"})
        => \A p \in Procs : ~Alive(children[p].state)

\* C25: cleanup may be invoked repeatedly: in every state of a run a second
\* invocation leaves what the first one left, with every registered process
\* dead and every descriptor's socket file absent
CleanupIdempotent ==
    scenario = "suite" =>
        LET once == CleanupOf([children |-> children,
                               socket_files |-> socket_files])
            twice == CleanupOf(once)
        IN  /\ twice = once
            /\ \A p \in Registered(running_processes) :
                   ~Alive(twice.children[p].state)
            /\ twice.socket_files \cap Impls = {}
            /\ (cleanups >= 1 =>
                   \A p \in Registered(running_processes) :
                       ~Alive(children[p].state))

\* the handler's cleanup was followed by the finally block's, a registered
\* listener having been killed by the first of them
CleanupTwiceWitness ==
    /\ scenario = "suite"
    /\ su_pc = "exited"
    /\ cleanups = 2
    /\ \E p \in Registered(running_processes) : children[p].state = "killed"
    /\ \E p \in Registered(running_processes) : children[p].state = "terminated"

\* C26: the k-th dispatch of a stress run, counting from 0, uses pattern
\* k mod |catalog| and the client at position k mod |clients| of the fixed
\* order, whatever the earlier requests came to
DispatchOrderFixed ==
    (scenario = "order" /\ st_pc = "evaluate") =>
        LET k == total_requests - 1
        IN  /\ pattern = test_patterns[(k % Len(test_patterns)) + 1]
            /\ client_idx = (k % Len(available_impls)) + 1
            /\ pattern_index = total_requests

\* the dispatch after the last pattern of the catalog, in a run that has
\* seen requests succeed and requests fail
DispatchOrderWitness ==
    /\ scenario = "order"
    /\ st_pc = "evaluate"
    /\ total_requests = Len(test_patterns) + 1
    /\ pattern = test_patterns[1]
    /\ successful_requests > 0
    /\ failed_requests > 0

\* the tags whose count the step changes
BumpedTags ==
    {t \in DOMAIN error_types' :
        t \notin DOMAIN error_types \/ error_types'[t] # error_types[t]}

\* the tags the harness gives to the other causes, and to no known cause
OtherCauseTags ==
    {"timeout", "exit_code", "socket_error", "exception", "unknown_error"}

\* C27: a failed stress dispatch records exactly one error-type tag, and the
\* tag identifies the cause: a reply the sender reported as a success that
\* fails the pattern's predicate is tagged as a validation mismatch, not
\* with the tag of another cause or of an unknown one
FailedDispatchTagged ==
    [][(scenario = "stress" /\ st_pc = "evaluate"
            /\ failed_requests' = failed_requests + 1)
         => /\ Cardinality(BumpedTags) = 1
            /\ \A t \in BumpedTags :
                 /\ error_types'[t] =
                        (IF t \in DOMAIN error_types THEN error_types[t] ELSE 0) + 1
                 /\ (response.error_type = "timeout" => t = "timeout")
                 /\ (response.error_type = "exit_code" => t = "exit_code")
                 /\ (response.success => t \notin OtherCauseTags)]_vars

RECURSIVE PoolSum(_, _)
\* the sum of a per-worker count over a set of workers
PoolSum(count, workers) ==
    IF workers = {} THEN 0
    ELSE LET w == CHOOSE v \in workers : TRUE
         IN  count[w] + PoolSum(count, workers \ {w})

NoStaleSocketAtSpawn ==
    (scenario = "server" /\ proc # "notspawned" /\ ~bound) => ~socket_file

\* the listener has just been spawned and has not bound its socket yet
FreshSpawnWitness ==
    /\ scenario = "server"
    /\ sm_pc = "wait_begin"
    /\ proc = "alive"
    /\ ~bound
    /\ ~socket_file

\* C30: reply paths are never reused: the path generated for a request is
\* not the path of an earlier request of the harness, whether of the same
\* measurement call or of another, nor of one under way
ReplyPathsNeverReused ==
    [][\A w \in Threads :
          (r_pc[w] = "idle" /\ r_pc'[w] = "bind")
              => \A v \in Threads : r_path'[w] # r_path[v]]_vars

\* the workers that have a request under way
InFlight == {w \in Threads : r_pc[w] # "idle"}

\* C31: in the concurrent modes the requests in flight at one time, and so
\* the reply socket files on disk at any moment, are never more than the
\* workers of the pool: a worker runs one request at a time and its reply
\* file is gone before it begins the next
ReplyFilesBounded ==
    scenario = "request" =>
        /\ Cardinality(InFlight) <= Cardinality(Workers)
        /\ Cardinality(reply_files) <= Cardinality(Workers)
        /\ \A w \in Threads :
             Cardinality({f \in reply_files : f[2] = w}) <= 1
        /\ \A f \in reply_files : f[2] \in InFlight

\* every worker of the pool is in its second request, each holding one file
ReplyFilesBoundWitness ==
    /\ scenario = "request"
    /\ Workers = Threads
    /\ \A w \in Threads : r_seq[w] = 2 /\ r_pc[w] = "recv"
    /\ Cardinality(reply_files) = Cardinality(Threads)

\* C32: no two live listeners spawned by the harness use the same
\* descriptor socket path at the same time: a listener for a path is spawned
\* only once the previous listener for that path has exited
OneListenerPerPath ==
    scenario = "suite" =>
        \A p, q \in Procs :
            (p # q /\ Alive(children[p].state) /\ Alive(children[q].state))
                => children[p].impl # children[q].impl

\* C33: when a critical combination runs into its timeout, wherever in
\* run_cross_platform_test the TimeoutError is raised, the server started
\* for the combination is stopped and its socket file removed before the
\* next combination begins
TimedOutPairCleanedUp ==
    (scenario = "critical" /\ ~in_pair /\ stops = 0 /\ started = "pending"
        /\ proc # "notspawned")
        => (proc # "alive" /\ ~socket_file)

----------------------------------------------------------------------------
(* Properties of TestOrchestrator.run_cross_platform_tests *)

\* C34: when the next combination starts, and when the exception of a client
\* test leaves run_cross_platform_tests, every server that start_server
\* returned is dead (terminated, killed or exited) and the socket file it
\* created is removed.
StartedServersCleanedUp ==
    \A c \in served :
        (c < combo \/ xp_pc = "raised") =>
            /\ server_procs[c] \in {"terminated", "killed", "exited"}
            /\ xp_socket[all_combinations[c].server] # c

\* a client test raised against a server that ignores SIGTERM, and the
\* finally clause has run
RaisedAndKilled ==
    /\ xp_pc = "raised"
    /\ combo \in served
    /\ server_procs[combo] = "killed"

----------------------------------------------------------------------------
(* Properties of ServerManager.ready *)

\* C35: ready is false until start has returned True; a step sets it only in
\* the readiness poll, on reading the SERVER_READY line or on finding the
\* socket file; the poll iteration that finds the listener exited returns
\* False and leaves ready alone; a step clears it only in stop, and after a
\* stop it is false.
ReadyDiscipline ==
    /\ []((started # "True" \/ (stops > 0 /\ sm_pc = "returned")) => ~ready)
    /\ [][/\ (~ready /\ ready') =>
               \/ sm_pc = "wait_readline" /\ pipe # << >>
                    /\ Head(pipe) = "SERVER_READY"
               \/ sm_pc = "wait_exists" /\ socket_file
          /\ (ready /\ ~ready') => sm_pc = "stop_clear"
          /\ (sm_pc = "wait_poll" /\ proc = "exited") =>
               (~ready' /\ started' = "False")]_vars

\* start returned True, so the poll had set ready, and a stop has cleared it
ReadyClearedByStop ==
    /\ scenario = "server"
    /\ started = "True"
    /\ stops > 0
    /\ sm_pc = "returned"
    /\ ~ready

----------------------------------------------------------------------------
(* Properties of the counters of run_stress_tests *)

\* C36: after every dispatch, that is whenever the loop is not between the
\* totals and the outcome of a request, successful_requests +
\* failed_requests equals total_requests, and success + failed equals total
\* for every pattern key and every client key.
EachRequestCountedOnce ==
    st_pc # "evaluate" =>
        /\ successful_requests + failed_requests = total_requests
        /\ \A k \in DOMAIN pattern_stats :
             pattern_stats[k].success + pattern_stats[k].failed
                 = pattern_stats[k].total
        /\ \A k \in DOMAIN client_stats :
             client_stats[k].success + client_stats[k].failed
                 = client_stats[k].total

\* a dispatch has just been counted, after successes and failures of the
\* same pattern key and of the same client
CountedOnceWitness ==
    /\ scenario = "stress"
    /\ st_pc = "for"
    /\ successful_requests >= 1
    /\ failed_requests >= 1
    /\ \E k \in DOMAIN pattern_stats :
         pattern_stats[k].success >= 1 /\ pattern_stats[k].failed >= 1
    /\ \E k \in DOMAIN client_stats :
         client_stats[k].success >= 1 /\ client_stats[k].failed >= 1

RECURSIVE SumErrors(_, _)

\* the sum of the counters of the tags in S
SumErrors(errs, S) ==
    IF S = {} THEN 0
    ELSE LET t == CHOOSE x \in S : TRUE
         IN  errs[t] + SumErrors(errs, S \ {t})

\* C37: the counters of error_types add up to failed_requests, after every
\* dispatch and in every other state of the run.
ErrorTypesAddUp ==
    SumErrors(error_types, DOMAIN error_types) = failed_requests

\* several failures, two of them with the same tag, and a second tag
ErrorTypesWitness ==
    /\ scenario = "stress"
    /\ st_pc = "for"
    /\ failed_requests >= 3
    /\ Cardinality(DOMAIN error_types) >= 2
    /\ \E t \in DOMAIN error_types : error_types[t] >= 2

----------------------------------------------------------------------------
(* The deadline of run_stress_tests *)

\* C38: a request is dispatched only while the clock is before end_time; a
\* server that was started is terminated in the end; and run_stress_tests
\* returns in the end.
DeadlineRespected ==
    /\ [][(st_pc = "dispatch" /\ st_pc' = "evaluate") => now < end_time]_vars
    /\ [](server_process = "running" => <>(server_process = "terminated"))
    /\ <>(st_pc = "returned")

\* the run has returned after a dispatch loop that the deadline ended, the
\* last server terminated
DeadlineWitness ==
    /\ scenario = "deadline"
    /\ st_pc = "returned"
    /\ total_requests >= 2
    /\ now >= end_time
    /\ server_process = "terminated"

----------------------------------------------------------------------------
(* The working directory of the ComprehensiveTestSuite process *)

\* C39: whenever every call of _start_listener, _run_sender or
\* _run_sender_with_command has returned, the working directory is the one
\* the process had before the calls.
CwdUnchangedOnReturn ==
    (scenario = "cwd" /\ \A t \in Threads : cw_pc[t] \in {"idle", "returned"})
        => cwd = "tests"

----------------------------------------------------------------------------
(* Properties of run_all_tests *)

====
